---- MODULE Spec2Model ----
(***************************************************************************)
(* Internet Object (InternetObject-js): the position-indexed Tokenizer of  *)
(* src/src/tokenizer/index.ts and the ASTParser of src/unnamed/part_001,   *)
(* as state machines.                                                      *)
(*                                                                         *)
(* A character is a one-character string, a string a sequence of           *)
(* characters.  Reading input[i] past the end gives JavaScript's           *)
(* `undefined`, modelled by UNDEF.  Positions are 0-based as in the code.  *)
(***************************************************************************)
EXTENDS Integers, Sequences, FiniteSets, TLC

VARIABLES
    input,       \* Tokenizer.input
    pos,         \* Tokenizer.pos
    row,         \* Tokenizer.row
    col,         \* Tokenizer.col
    reachedEnd,  \* Tokenizer.reachedEnd
    tokens,      \* the local `tokens` of tokenize()
    pc,          \* where tokenize() is: the dispatch loop or an inner loop
    frame,       \* the locals of the parse* call in progress
    error,       \* the message of the Error thrown, "" while none
    stack,       \* ASTParser.stack (indices into heap)
    heap,        \* the container objects the parser has allocated
    lastToken,   \* ASTParser.lastToken
    fed,         \* how many tokens have been passed to process()
    result,      \* what toObject() returned
    call         \* a type definition's parse: its arguments and its outcome

tokVars == <<input, pos, row, col, reachedEnd, tokens, pc, frame, error>>
astVars == <<stack, heap, lastToken, fed, result>>
vars == <<input, pos, row, col, reachedEnd, tokens, pc, frame, error,
          stack, heap, lastToken, fed, result, call>>

---------------------------------------------------------------------------
(* Bounds of the model *)

\* longest input drawn exhaustively from Alphabet
MaxLen == 4
\* longest lexeme a digit loop of parseNumber may accumulate
MaxValueLen == 10
\* longest token sequence handed directly to the parser
MaxTokens == 4
\* longest string of letters handed to StringDef, and largest length bound
MaxStrLen == 3

---------------------------------------------------------------------------
(* Characters *)

NL == "\n"
TAB == "\t"
UNDEF == "undefined"
BACKSLASH == "\\"
DOUBLE_QUOTE == "\""
SINGLE_QUOTE == "'"
HASH == "#"
MINUS == "-"
PLUS == "+"

Min(a, b) == IF a < b THEN a ELSE b
Max(a, b) == IF a > b THEN a ELSE b

\* input[i] of JavaScript, i 0-based
CharAt(s, i) == IF i >= 0 /\ i < Len(s) THEN s[i + 1] ELSE UNDEF

\* String.prototype.substring(a, b)
Substring(s, a, b) ==
    LET lo == Max(0, Min(a, Len(s)))
        hi == Max(0, Min(b, Len(s)))
    IN SubSeq(s, Min(lo, hi) + 1, Max(lo, hi))

DecDigits == {"0", "1", "2", "3", "4", "5", "6", "7", "8", "9"}
OctDigits == {"0", "1", "2", "3", "4", "5", "6", "7"}
BinDigits == {"0", "1"}
HexDigits == DecDigits \cup {"a", "b", "c", "d", "e", "f",
                             "A", "B", "C", "D", "E", "F"}

\* the characters of String(undefined)
UndefinedChars == {"u", "n", "d", "e", "f", "i"}

\* RegExp.prototype.test of an unanchored one-character class /[...]/ on
\* input[pos]: the argument is converted to a string first, so `undefined`
\* is searched as the text "undefined".
ClassTest(class, c) ==
    IF c = UNDEF THEN UndefinedChars \cap class # {} ELSE c \in class

\* regexHex4 / regexHex2: /^[0-9a-fA-F]{n}$/
HexN(s, n) == Len(s) = n /\ \A i \in 1..Len(s) : s[i] \in HexDigits

---------------------------------------------------------------------------
(* Character classifier (tokenizer/is.ts, section 4.1 of the spec) *)

Whitespace == {" ", TAB, "\r", NL, "\f"}
SpecialSymbols == {"{", "}", "[", "]", ",", ":", "~"}

isWhitespace(c) == c \in Whitespace
isDigit(c) == c \in DecDigits
isSpecialSymbol(c) == c \in SpecialSymbols
isValidOpenStringChar(c) ==
    /\ c # UNDEF
    /\ ~isSpecialSymbol(c)
    /\ c \notin {DOUBLE_QUOTE, SINGLE_QUOTE}
    /\ c # HASH

getSymbolTokenType(c) ==
    CASE c = "{" -> "CURLY_OPEN"
      [] c = "}" -> "CURLY_CLOSE"
      [] c = "[" -> "BRACKET_OPEN"
      [] c = "]" -> "BRACKET_CLOSE"
      [] c = "," -> "COMMA"
      [] c = ":" -> "COLON"
      [] c = "~" -> "TILDE"

---------------------------------------------------------------------------
(* Token values: a tagged variant with the same fields in every case *)

StrVal(s) == [k |-> "string", s |-> s, m |-> 0, e |-> 0]
NaNVal == [k |-> "NaN", s |-> <<>>, m |-> 0, e |-> 0]
BoolVal(b) == [k |-> "boolean", s |-> <<>>, m |-> IF b THEN 1 ELSE 0, e |-> 0]
NullVal == [k |-> "null", s |-> <<>>, m |-> 0, e |-> 0]
UndefinedVal == [k |-> "undefined", s |-> <<>>, m |-> 0, e |-> 0]
BytesVal(bs) == [k |-> "bytes", s |-> bs, m |-> 0, e |-> 0]

\* the number m * 10^e, in the one form where m carries no trailing zero
RECURSIVE NumVal(_, _)
NumVal(m, e) ==
    IF m = 0 THEN [k |-> "number", s |-> <<>>, m |-> 0, e |-> 0]
    ELSE IF m % 10 = 0 THEN NumVal(m \div 10, e + 1)
    ELSE [k |-> "number", s |-> <<>>, m |-> m, e |-> e]

DigitVal(c) ==
    CASE c \in DecDigits ->
           (CHOOSE d \in 0..9 :
               c = <<"0", "1", "2", "3", "4", "5", "6", "7", "8", "9">>[d + 1])
      [] c \in {"a", "A"} -> 10
      [] c \in {"b", "B"} -> 11
      [] c \in {"c", "C"} -> 12
      [] c \in {"d", "D"} -> 13
      [] c \in {"e", "E"} -> 14
      [] c \in {"f", "F"} -> 15
      [] OTHER -> 99

\* how many leading characters of s are digits of the base
RECURSIVE DigitRun(_, _)
DigitRun(s, base) ==
    IF s # <<>> /\ DigitVal(Head(s)) < base
    THEN 1 + DigitRun(Tail(s), base) ELSE 0

RECURSIVE DigitsValue(_, _, _)
DigitsValue(s, base, acc) ==
    IF s = <<>> THEN acc
    ELSE DigitsValue(Tail(s), base, acc * base + DigitVal(Head(s)))

SignOf(s) == IF s # <<>> /\ Head(s) = MINUS THEN -1 ELSE 1
Unsigned(s) == IF s # <<>> /\ Head(s) \in {MINUS, PLUS} THEN Tail(s) ELSE s

\* parseInt(string, radix): sign, for radix 16 an optional 0x/0X, then the
\* longest run of digits of the radix; NaN when that run is empty.
ParseInt(s, base) ==
    LET u == Unsigned(s)
        body == IF base = 16 /\ Len(u) >= 2 /\ u[1] = "0" /\ u[2] \in {"x", "X"}
                THEN SubSeq(u, 3, Len(u)) ELSE u
        n == DigitRun(body, base)
    IN IF n = 0 THEN NaNVal
       ELSE NumVal(SignOf(s) * DigitsValue(SubSeq(body, 1, n), base, 0), 0)

\* parseFloat(string): the longest prefix that is a decimal literal
\* [+-] digits [. digits] [(e|E) [+-] digits]; NaN when it has no digit.
ParseFloat(s) ==
    LET u == Unsigned(s)
        ni == DigitRun(u, 10)
        a == SubSeq(u, ni + 1, Len(u))
        hasDot == a # <<>> /\ Head(a) = "."
        nf == IF hasDot THEN DigitRun(Tail(a), 10) ELSE 0
        b == IF hasDot THEN SubSeq(a, nf + 2, Len(a)) ELSE a
        hasE == b # <<>> /\ Head(b) \in {"e", "E"}
        c == IF hasE THEN Tail(b) ELSE <<>>
        esign == SignOf(c)
        ne == DigitRun(Unsigned(c), 10)
        ex == IF hasE /\ ne > 0
              THEN esign * DigitsValue(SubSeq(Unsigned(c), 1, ne), 10, 0) ELSE 0
        mant == DigitsValue(SubSeq(u, 1, ni) \o
                            (IF hasDot THEN SubSeq(Tail(a), 1, nf) ELSE <<>>), 10, 0)
    IN IF ni + nf = 0 THEN NaNVal
       ELSE NumVal(SignOf(s) * mant, ex - nf)

\* String.fromCharCode for the code units the inputs of the model can name
FromCharCode(n) ==
    CASE n = 0 -> "U+0"
      [] n = 10 -> NL
      [] n = 16 -> "U+16"
      [] n = 17 -> "U+17"
      [] n = 65 -> "A"
      [] n = 97 -> "a"
      [] OTHER -> "U+" \o ToString(n)

\* String.prototype.normalize('NFC'): canonical composition.  Of the code
\* units FromCharCode can give here only a base letter followed by a
\* combining mark composes; the pair the model knows is a + U+0301.
RECURSIVE NFC(_)
NFC(s) ==
    IF Len(s) < 2 THEN s
    ELSE IF s[1] = "a" /\ s[2] = "U+769" THEN <<"U+225">> \o NFC(SubSeq(s, 3, Len(s)))
    ELSE <<s[1]>> \o NFC(Tail(s))

\* Buffer.from(text, 'base64'): characters outside the base64 alphabet are
\* skipped, every 4 sextets give 3 bytes, a trailing 2 or 3 give 1 or 2.
B64Alphabet ==
    <<"A", "B", "C", "D", "E", "F", "G", "H", "I", "J", "K", "L", "M",
      "N", "O", "P", "Q", "R", "S", "T", "U", "V", "W", "X", "Y", "Z",
      "a", "b", "c", "d", "e", "f", "g", "h", "i", "j", "k", "l", "m",
      "n", "o", "p", "q", "r", "s", "t", "u", "v", "w", "x", "y", "z",
      "0", "1", "2", "3", "4", "5", "6", "7", "8", "9", "+", "/">>

B64Index(c) == (CHOOSE i \in 1..64 : B64Alphabet[i] = c) - 1
IsB64(c) == \E i \in 1..64 : B64Alphabet[i] = c

RECURSIVE B64Bytes(_)
B64Bytes(x) ==
    IF Len(x) < 2 THEN <<>>
    ELSE LET b1 == x[1] * 4 + x[2] \div 16
         IN IF Len(x) = 2 THEN <<ToString(b1)>>
            ELSE LET b2 == (x[2] % 16) * 16 + x[3] \div 4
                 IN IF Len(x) = 3 THEN <<ToString(b1), ToString(b2)>>
                    ELSE <<ToString(b1), ToString(b2),
                           ToString((x[3] % 4) * 64 + x[4])>>
                         \o B64Bytes(SubSeq(x, 5, Len(x)))

Base64Decode(s) ==
    LET kept == SelectSeq(s, IsB64)
    IN B64Bytes([i \in 1..Len(kept) |-> B64Index(kept[i])])

---------------------------------------------------------------------------
(* Tokenizer (src/src/tokenizer/index.ts).  A tokenizer is the record t of *)
(* its fields and of the locals of the call in progress; every operator    *)
(* below maps a tokenizer to the tokenizer after the code it models.       *)

BS == "U+8"
Quotes == {DOUBLE_QUOTE, SINGLE_QUOTE}
SectionSep == <<"-", "-", "-">>

NoFrame ==
    [start |-> 0, startRow |-> 0, startCol |-> 0, value |-> <<>>,
     encloser |-> "", needToNormalize |-> FALSE, base |-> 10,
     hasDecimal |-> FALSE, hasExponent |-> FALSE, subType |-> "",
     lastPos |-> 0]

\* new Token(pos, row, col, text, value, type, subType)
Token(position, r, c, text, value, type, subType) ==
    [position |-> position, row |-> r, col |-> c, text |-> text,
     value |-> value, type |-> type, subType |-> subType]

\* new Tokenizer(input)
NewTokenizer(inp) ==
    [input |-> inp, pos |-> 0, row |-> 1, col |-> 1, reachedEnd |-> FALSE,
     tokens |-> <<>>, pc |-> "dispatch", frame |-> NoFrame, error |-> ""]

\* seeded fault: advance() that does not start a new column count at a newline
RECURSIVE advanceLoop_keepCol(_, _)
advanceLoop_keepCol(t, n) ==
    IF n = 0 THEN t
    ELSE LET newline == CharAt(t.input, t.pos) = NL
             t1 == [t EXCEPT !.row = IF newline THEN @ + 1 ELSE @,
                             !.col = @ + 1,
                             !.pos = @ + 1]
         IN IF t1.pos >= Len(t1.input)
            THEN [t1 EXCEPT !.reachedEnd = TRUE]
            ELSE advanceLoop_keepCol(t1, n - 1)

RECURSIVE advanceLoop(_, _)
advanceLoop(t, n) ==
    IF n = 0 THEN t
    ELSE LET newline == CharAt(t.input, t.pos) = NL
             t1 == [t EXCEPT !.row = IF newline THEN @ + 1 ELSE @,
                             !.col = IF newline THEN 1 ELSE @ + 1,
                             !.pos = @ + 1]
         IN IF t1.pos >= Len(t1.input)
            THEN [t1 EXCEPT !.reachedEnd = TRUE]
            ELSE advanceLoop(t1, n - 1)

\* seeded fault: advance() without the test of reachedEnd
advance_unguarded(t, step) == advanceLoop(t, step)

\* advance(step)
advance(t, step) == IF t.reachedEnd THEN t ELSE advanceLoop(t, step)

\* the locals start, startRow, startCol of a parse* method
enter(t, where) ==
    [t EXCEPT !.pc = where,
              !.frame = [NoFrame EXCEPT !.start = t.pos, !.startRow = t.row,
                                        !.startCol = t.col, !.lastPos = t.pos]]

\* value += c
addValue(t, c) == [t EXCEPT !.frame.value = Append(@, c)]

\* seeded fault: tokens.unshift(token) in place of tokens.push(token)
emit_unshift(t, token) ==
    [t EXCEPT !.tokens = <<token>> \o @, !.pc = "dispatch", !.frame = NoFrame]

\* tokens.push(token), back in the dispatch loop
emit(t, token) ==
    [t EXCEPT !.tokens = Append(@, token), !.pc = "dispatch", !.frame = NoFrame]

\* throw new Error(message)
throw(t, message) == [t EXCEPT !.pc = "thrown", !.error = message]

\* which branch of the dispatch loop of tokenize() is taken
tokenize_branch(t) ==
    LET char == CharAt(t.input, t.pos)
        next == CharAt(t.input, t.pos + 1)
    IN IF ~(t.pos < Len(t.input)) THEN "return"
       ELSE IF isWhitespace(char) THEN "whitespace"
       ELSE IF char = HASH THEN "comment"
       ELSE IF char \in Quotes THEN "regular"
       ELSE IF char = "r" /\ next \in Quotes THEN "raw"
       ELSE IF char = "b" /\ next \in Quotes THEN "byte"
       ELSE IF isSpecialSymbol(char) THEN "symbol"
       ELSE IF char = PLUS \/ char = MINUS \/ isDigit(char)
            THEN IF char = MINUS /\ Substring(t.input, t.pos, t.pos + 3) = SectionSep
                 THEN "sectionSep" ELSE "number"
       ELSE "open"

\* return tokens
tokenize_return(t) == [t EXCEPT !.pc = "returned"]

\* seeded fault: a comment loop that does not stop at the newline
parseSingleLineComment_loop_pastNewline(t) ==
    IF ~t.reachedEnd
    THEN advance(t, 1)
    ELSE [t EXCEPT !.pc = "dispatch"]

\* one iteration of the loop of parseSingleLineComment
parseSingleLineComment_loop(t) ==
    IF ~t.reachedEnd /\ CharAt(t.input, t.pos) # NL
    THEN advance(t, 1)
    ELSE [t EXCEPT !.pc = "dispatch"]

parseSingleLineComment(t) == [t EXCEPT !.pc = "comment"]

\* parseRegularString up to its loop
parseRegularString(t) ==
    LET t1 == enter(t, "regular")
    IN advance([t1 EXCEPT !.frame.encloser = CharAt(t.input, t.pos)], 1)

\* seeded fault: a \u escape passes three of its four hex digits
parseRegularString_escape_short(t) ==
    LET e == CharAt(t.input, t.pos)
        hex == Substring(t.input, t.pos + 1, t.pos + 5)
    IN IF e = "u" /\ HexN(hex, 4)
       THEN advance([addValue(t, FromCharCode(DigitsValue(hex, 16, 0)))
                        EXCEPT !.frame.needToNormalize = TRUE], 3)
       ELSE IF e = "n" THEN addValue(t, NL)
       ELSE IF e = "t" THEN addValue(t, TAB)
       ELSE addValue(t, e)

\* the escape switch of parseRegularString, at the character after the backslash
parseRegularString_escape(t) ==
    LET e == CharAt(t.input, t.pos)
    IN CASE e = "b" -> addValue(t, BS)
         [] e = "f" -> addValue(t, "\f")
         [] e = "n" -> addValue(t, NL)
         [] e = "r" -> addValue(t, "\r")
         [] e = "t" -> addValue(t, TAB)
         [] e = "u" ->
              LET hex == Substring(t.input, t.pos + 1, t.pos + 5)
              IN IF HexN(hex, 4)
                 THEN advance([addValue(t, FromCharCode(DigitsValue(hex, 16, 0)))
                                  EXCEPT !.frame.needToNormalize = TRUE], 4)
                 ELSE throw(t, "Invalid Unicode escape sequence")
         [] e = "x" ->
              LET hexByte == Substring(t.input, t.pos + 1, t.pos + 3)
              IN IF HexN(hexByte, 2)
                 THEN advance([addValue(t, FromCharCode(DigitsValue(hexByte, 16, 0)))
                                  EXCEPT !.frame.needToNormalize = TRUE], 2)
                 ELSE throw(t, "Invalid hex escape sequence")
         [] OTHER -> addValue(t, e)

\* seeded fault: an unclosed regular string is emitted instead of raising
parseRegularString_close_partial(t) ==
    LET f == t.frame
        tokenText == <<f.encloser>> \o f.value \o <<f.encloser>>
        value == IF f.needToNormalize THEN NFC(f.value) ELSE f.value
    IN emit(advance(t, 1),
            Token(f.start, f.startRow, f.startCol, tokenText,
                  StrVal(value), "STRING", "REGULAR_STRING"))

\* after the loop of parseRegularString
parseRegularString_close(t) ==
    IF t.reachedEnd THEN throw(t, "String is not closed")
    ELSE LET f == t.frame
             tokenText == <<f.encloser>> \o f.value \o <<f.encloser>>
             value == IF f.needToNormalize THEN NFC(f.value) ELSE f.value
         IN emit(advance(t, 1),
                 Token(f.start, f.startRow, f.startCol, tokenText,
                       StrVal(value), "STRING", "REGULAR_STRING"))

\* one iteration of the loop of parseRegularString
parseRegularString_loop(t) ==
    IF ~t.reachedEnd /\ CharAt(t.input, t.pos) # t.frame.encloser
    THEN IF CharAt(t.input, t.pos) = BACKSLASH
         THEN LET t1 == advance(t, 1)
              IN IF t1.reachedEnd
                 THEN throw(t1, "String ends with an unprocessed escape sequence")
                 ELSE LET t2 == parseRegularString_escape(t1)
                      IN IF t2.pc = "thrown" THEN t2 ELSE advance(t2, 1)
         ELSE advance(addValue(t, CharAt(t.input, t.pos)), 1)
    ELSE parseRegularString_close(t)

\* parseRawString / parseByteString up to the loop
parseQuoted_open(t, where) ==
    LET t1 == advance(enter(t, where), 1)
        encloser == CharAt(t1.input, t1.pos)
    IN IF t1.reachedEnd THEN throw(t1, "Unexpected end of input")
       ELSE IF encloser \notin Quotes THEN throw(t1, "Expected a quotation mark")
       ELSE advance([t1 EXCEPT !.frame.encloser = encloser], 1)

parseRawString(t) == parseQuoted_open(t, "raw")
parseByteString(t) == parseQuoted_open(t, "byte")

\* one iteration of the loop of parseRawString, or what follows the loop
parseRawString_loop(t) ==
    IF ~t.reachedEnd /\ CharAt(t.input, t.pos) # t.frame.encloser
    THEN advance(t, 1)
    ELSE IF t.reachedEnd THEN throw(t, "Raw string is not closed")
    ELSE LET t1 == advance(t, 1)
             tokenText == Substring(t1.input, t1.frame.start, t1.pos)
             value == Substring(tokenText, 2, Len(tokenText) - 1)
         IN emit(t1, Token(t.frame.start, t.frame.startRow, t.frame.startCol,
                           tokenText, StrVal(value), "STRING", "RAW_STRING"))

\* one iteration of the loop of parseByteString, or what follows the loop
parseByteString_loop(t) ==
    IF ~t.reachedEnd /\ CharAt(t.input, t.pos) # t.frame.encloser
    THEN advance(t, 1)
    ELSE IF t.reachedEnd THEN throw(t, "Binary string is not closed")
    ELSE LET t1 == advance(t, 1)
             tokenText == Substring(t1.input, t1.frame.start, t1.pos)
             base64 == Substring(tokenText, 2, Len(tokenText) - 1)
         IN emit(t1, Token(t.frame.start, t.frame.startRow, t.frame.startCol,
                           tokenText, BytesVal(Base64Decode(base64)),
                           "BINARY", "BINARY"))

\* the special-symbol branch of tokenize()
tokenize_symbol(t) ==
    LET char == CharAt(t.input, t.pos)
    IN advance(emit(t, Token(t.pos, t.row, t.col, <<char>>, StrVal(<<char>>),
                             getSymbolTokenType(char), "")), 1)

\* seeded fault: the section separator is passed by two characters only
tokenize_sectionSep_short(t) ==
    advance(emit(t, Token(t.pos, t.row, t.col, SectionSep, StrVal(SectionSep),
                          "SECTION_SEP", "")), 2)

\* the `---` branch of tokenize()
tokenize_sectionSep(t) ==
    advance(emit(t, Token(t.pos, t.row, t.col, SectionSep, StrVal(SectionSep),
                          "SECTION_SEP", "")), 3)

\* the end of parseNumber: the value of the lexeme and the token
parseNumber_finish(t) ==
    LET f == t.frame
        numberValue == IF f.base = 10 /\ (f.hasDecimal \/ f.hasExponent)
                       THEN ParseFloat(f.value)
                       ELSE ParseInt(f.value, f.base)
    IN emit(t, Token(f.start, f.startRow, f.startCol, f.value, numberValue,
                     "NUMBER", f.subType))

\* a digit loop of parseNumber: while (/[class]/.test(input[pos])) { value += input[pos]; advance() }
digitLoop(t, class, after) ==
    IF ClassTest(class, CharAt(t.input, t.pos))
    THEN advance(addValue(t, CharAt(t.input, t.pos)), 1)
    ELSE after

\* the base prefix 0x / 0c / 0b: value += input[pos] + input[pos + 1]; advance(2)
parseNumber_prefix(t, base, subType, where) ==
    LET t1 == addValue(addValue(t, CharAt(t.input, t.pos)),
                       CharAt(t.input, t.pos + 1))
    IN advance([t1 EXCEPT !.frame.base = base, !.frame.subType = subType,
                          !.pc = where], 2)

\* parseNumber, scientific notation: after the fractional part
parseNumber_exponent(t) ==
    IF CharAt(t.input, t.pos) \in {"e", "E"}
    THEN LET t1 == advance([addValue(t, CharAt(t.input, t.pos))
                               EXCEPT !.frame.hasExponent = TRUE], 1)
             t2 == IF CharAt(t1.input, t1.pos) \in {PLUS, MINUS}
                   THEN advance(addValue(t1, CharAt(t1.input, t1.pos)), 1)
                   ELSE t1
         IN [t2 EXCEPT !.pc = "exponentDigits"]
    ELSE parseNumber_finish(t)

\* parseNumber, decimal point: after the whole part
parseNumber_fraction(t) ==
    IF CharAt(t.input, t.pos) = "."
    THEN [advance([addValue(t, ".") EXCEPT !.frame.hasDecimal = TRUE], 1)
             EXCEPT !.pc = "fractionDigits"]
    ELSE parseNumber_exponent(t)

parseNumber_hex(t) == digitLoop(t, HexDigits, parseNumber_finish(t))
parseNumber_octal(t) == digitLoop(t, OctDigits, parseNumber_finish(t))
parseNumber_binary(t) == digitLoop(t, BinDigits, parseNumber_finish(t))
parseNumber_zero(t) == digitLoop(t, DecDigits \cup {"."}, parseNumber_finish(t))
parseNumber_whole(t) == digitLoop(t, DecDigits, parseNumber_fraction(t))
parseNumber_fractionDigits(t) == digitLoop(t, DecDigits, parseNumber_exponent(t))
parseNumber_exponentDigits(t) == digitLoop(t, DecDigits, parseNumber_finish(t))

\* parseLiteralOrOpenString up to its loop
parseLiteralOrOpenString(t) == enter(t, "open")

\* seeded fault: the literals are not recognised, every value is a string
parseLiteralOrOpenString_finish_noLiterals(t) ==
    LET f == t.frame
        value == Substring(t.input, f.start, f.lastPos + 1)
    IN emit(t, Token(f.start, f.startRow, f.startCol, value, StrVal(value),
                     "STRING", "OPEN_STRING"))

\* after the loop of parseLiteralOrOpenString
parseLiteralOrOpenString_finish(t) ==
    LET f == t.frame
        value == Substring(t.input, f.start, f.lastPos + 1)
        tok(v, type, subType) ==
            emit(t, Token(f.start, f.startRow, f.startCol, value, v, type, subType))
    IN IF value = <<>> THEN throw(t, "Unexpected character")
       ELSE IF value \in {<<"t", "r", "u", "e">>, <<"T">>}
            THEN tok(BoolVal(TRUE), "BOOLEAN", "")
       ELSE IF value \in {<<"f", "a", "l", "s", "e">>, <<"F">>}
            THEN tok(BoolVal(FALSE), "BOOLEAN", "")
       ELSE IF value \in {<<"n", "u", "l", "l">>, <<"N">>}
            THEN tok(NullVal, "NULL", "")
       ELSE tok(StrVal(value), "STRING", "OPEN_STRING")

\* seeded fault: an open-string loop that keeps trailing whitespace
parseLiteralOrOpenString_loop_untrimmed(t) ==
    LET char == CharAt(t.input, t.pos)
    IN IF /\ ~t.reachedEnd
          /\ isValidOpenStringChar(char)
          /\ ~(char = MINUS /\ Substring(t.input, t.pos, t.pos + 3) = SectionSep)
       THEN advance([t EXCEPT !.frame.lastPos = t.pos], 1)
       ELSE parseLiteralOrOpenString_finish(t)

\* one iteration of the loop of parseLiteralOrOpenString
parseLiteralOrOpenString_loop(t) ==
    LET char == CharAt(t.input, t.pos)
    IN IF /\ ~t.reachedEnd
          /\ isValidOpenStringChar(char)
          /\ ~(char = MINUS /\ Substring(t.input, t.pos, t.pos + 3) = SectionSep)
       THEN advance([t EXCEPT !.frame.lastPos =
                                 IF ~isWhitespace(char) THEN t.pos ELSE @], 1)
       ELSE parseLiteralOrOpenString_finish(t)

\* parseNumber up to its first digit loop; when it returns null the
\* dispatcher calls parseLiteralOrOpenString at the same position
parseNumber(t) ==
    LET t0 == enter(t, "number")
        char == CharAt(t.input, t.pos)
    IN IF char = MINUS /\ ~isDigit(CharAt(t.input, t.pos + 1))
       THEN parseLiteralOrOpenString(t)
       ELSE LET t1 == IF char = MINUS THEN advance(addValue(t0, char), 1) ELSE t0
                t2 == IF CharAt(t1.input, t1.pos) = PLUS
                      THEN advance(addValue(t1, PLUS), 1) ELSE t1
                next == CharAt(t2.input, t2.pos + 1)
            IN IF CharAt(t2.input, t2.pos) = "0"
               THEN CASE next \in {"X", "x"} ->
                           parseNumber_prefix(t2, 16, "HEX", "hexDigits")
                      [] next \in {"C", "c"} ->
                           parseNumber_prefix(t2, 8, "OCTAL", "octalDigits")
                      [] next \in {"B", "b"} ->
                           parseNumber_prefix(t2, 2, "BINARY", "binaryDigits")
                      [] OTHER -> [t2 EXCEPT !.pc = "zeroDigits"]
               ELSE [t2 EXCEPT !.pc = "wholeDigits"]

\* one iteration of the dispatch loop of tokenize()
tokenize_loop(t) ==
    LET b == tokenize_branch(t)
    IN CASE b = "return" -> tokenize_return(t)
         [] b = "whitespace" -> advance(t, 1)
         [] b = "comment" -> parseSingleLineComment(t)
         [] b = "regular" -> parseRegularString(t)
         [] b = "raw" -> parseRawString(t)
         [] b = "byte" -> parseByteString(t)
         [] b = "symbol" -> tokenize_symbol(t)
         [] b = "sectionSep" -> tokenize_sectionSep(t)
         [] b = "number" -> parseNumber(t)
         [] b = "open" -> parseLiteralOrOpenString(t)

Running == {"dispatch", "comment", "regular", "raw", "byte", "hexDigits",
            "octalDigits", "binaryDigits", "zeroDigits", "wholeDigits",
            "fractionDigits", "exponentDigits", "open"}

\* the next step of tokenize(): one iteration of the loop it is in
step(t) ==
    CASE t.pc = "dispatch" -> tokenize_loop(t)
      [] t.pc = "comment" -> parseSingleLineComment_loop(t)
      [] t.pc = "regular" -> parseRegularString_loop(t)
      [] t.pc = "raw" -> parseRawString_loop(t)
      [] t.pc = "byte" -> parseByteString_loop(t)
      [] t.pc = "hexDigits" -> parseNumber_hex(t)
      [] t.pc = "octalDigits" -> parseNumber_octal(t)
      [] t.pc = "binaryDigits" -> parseNumber_binary(t)
      [] t.pc = "zeroDigits" -> parseNumber_zero(t)
      [] t.pc = "wholeDigits" -> parseNumber_whole(t)
      [] t.pc = "fractionDigits" -> parseNumber_fractionDigits(t)
      [] t.pc = "exponentDigits" -> parseNumber_exponentDigits(t)
      [] t.pc = "open" -> parseLiteralOrOpenString_loop(t)
      [] OTHER -> t

\* tokenize() run for at most n steps
RECURSIVE run(_, _)
run(t, n) == IF n = 0 \/ t.pc \notin Running THEN t ELSE run(step(t), n - 1)

\* new Tokenizer(inp).tokenize(): every step moves pos forward or leaves or
\* enters a loop, so a run that ends takes fewer than 3 * length + 4 steps
tokenize(inp) == run(NewTokenizer(inp), 3 * Len(inp) + 4)

---------------------------------------------------------------------------
(* Type definitions: StringDef (src/unnamed/part_002) and NumberDef        *)
(* (src/unnamed/part_003).  The value handed to a type definition is a     *)
(* tagged record; a number is hi * 2^16 + lo (+ 1/2 when half), which      *)
(* keeps 2 ** 32 and its neighbours exact.                                 *)

Radix == 2 ^ 16

VNum(hi, lo, half) == [k |-> "number", s |-> <<>>, hi |-> hi, lo |-> lo, half |-> half]
VInt(n) == VNum(0, n, FALSE)
VNaN == [k |-> "NaN", s |-> <<>>, hi |-> 0, lo |-> 0, half |-> FALSE]
VBigInt(hi, lo) == [k |-> "bigint", s |-> <<>>, hi |-> hi, lo |-> lo, half |-> FALSE]
VStr(str) == [k |-> "string", s |-> str, hi |-> 0, lo |-> 0, half |-> FALSE]
VNull == [k |-> "null", s |-> <<>>, hi |-> 0, lo |-> 0, half |-> FALSE]
VUndefined == [k |-> "undefined", s |-> <<>>, hi |-> 0, lo |-> 0, half |-> FALSE]

\* typeof value
typeof(v) ==
    CASE v.k \in {"number", "NaN"} -> "number"
      [] v.k = "null" -> "object"
      [] OTHER -> v.k

\* 2 ** n, -(x), x - 1 and x + 1 on whole numbers
Pow2(n) == IF n < 16 THEN VNum(0, 2 ^ n, FALSE) ELSE VNum(2 ^ (n - 16), 0, FALSE)
Negate(x) ==
    IF x.lo = 0 THEN [x EXCEPT !.hi = -x.hi]
    ELSE [x EXCEPT !.hi = -x.hi - 1, !.lo = Radix - x.lo]
MinusOne(x) ==
    IF x.lo = 0 THEN [x EXCEPT !.hi = x.hi - 1, !.lo = Radix - 1]
    ELSE [x EXCEPT !.lo = x.lo - 1]
PlusOne(x) ==
    IF x.lo = Radix - 1 THEN [x EXCEPT !.hi = x.hi + 1, !.lo = 0]
    ELSE [x EXCEPT !.lo = x.lo + 1]

\* a < b of JavaScript on numbers and bigints: false when either is NaN
\* or undefined
IsNumeric(v) == v.k \in {"number", "bigint"}
LessThan(a, b) ==
    /\ IsNumeric(a)
    /\ IsNumeric(b)
    /\ \/ a.hi < b.hi
       \/ a.hi = b.hi /\ a.lo < b.lo
       \/ a.hi = b.hi /\ a.lo = b.lo /\ ~a.half /\ b.half

\* ErrorCodes, the members the enum of part_004 has
ErrorCodes(member) ==
    CASE member = "invalidType" -> "invalid-type"
      [] member = "invalidValue" -> "invalid-value"
      [] member = "valueRequired" -> "value-required"
      [] member = "nullNotAllowed" -> "null-not-allowed"
      [] member = "notAString" -> "not-a-string"
      [] member = "invalidEmail" -> "invalid-email"
      [] member = "invalidUrl" -> "invalid-url"
      [] member = "valueNotInChoice" -> "value-not-in-choice"
      [] member = "invalidMinLength" -> "invalid-min-length"
      [] member = "invalidMaxLength" -> "invalid-max-length"
      [] member = "outOfRange" -> "out-of-range"

\* ErrorCodes.invalidRange and ErrorCodes.unsupportedNumberType, which
\* NumberDef uses and the enum of part_004 lacks (section 4.4.3, 7 of the spec)
invalidRange == "invalid-range"
unsupportedNumberType == "unsupported-number-type"

\* the outcome of a call: a value returned or an error thrown with a code
Returned(v) == [status |-> "returned", value |-> v, code |-> ""]
Thrown(code) == [status |-> "thrown", value |-> VUndefined, code |-> code]
Pending == [status |-> "pending", value |-> VUndefined, code |-> ""]

\* a MemberDef with no option set
NoMemberDef ==
    [type |-> "", optional |-> FALSE, null |-> FALSE, default |-> VUndefined,
     hasChoices |-> FALSE, choices |-> {}, min |-> VNull, max |-> VNull,
     minLength |-> VUndefined, maxLength |-> VUndefined, pattern |-> <<>>,
     hasPattern |-> FALSE, re |-> <<>>]

\* doCommonTypeCheck(memberDef, value, node) (section 4.4.1 of the spec)
doCommonTypeCheck(memberDef, value) ==
    IF value.k = "undefined"
    THEN IF memberDef.optional THEN Returned(memberDef.default)
         ELSE Thrown(ErrorCodes("valueRequired"))
    ELSE IF value.k = "null"
    THEN IF memberDef.null THEN Returned(VNull)
         ELSE Thrown(ErrorCodes("nullNotAllowed"))
    ELSE IF memberDef.hasChoices /\ value \notin memberDef.choices
    THEN Thrown(ErrorCodes("valueNotInChoice"))
    ELSE Returned(value)

NUMBER_TYPES ==
    <<"bigint", "int", "uint", "float", "number", "int8", "int16", "int32",
      "uint8", "uint16", "uint32", "uint64", "float32", "float64">>

\* NUMBER_MAP[key]: true for the names of NUMBER_TYPES, undefined otherwise
NUMBER_MAP(key) == \E i \in 1..Len(NUMBER_TYPES) : NUMBER_TYPES[i] = key

\* seeded fault: _intValidator whose range test excludes the bounds
_intValidator_exclusive(min, max, memberDef, value) ==
    LET valueType == IF typeof(value) = "bigint" THEN "bigint"
                     ELSE IF NUMBER_MAP(typeof(value)) THEN "number" ELSE ""
        memberdefType == IF memberDef.type = "bigint" THEN "bigint" ELSE "number"
    IN IF valueType = "" THEN ErrorCodes("invalidType")
       ELSE IF memberdefType # valueType THEN "not-a-" \o memberDef.type
       ELSE IF \/ min # VNull /\ ~LessThan(min, value)
               \/ max # VNull /\ ~LessThan(value, max)
            THEN invalidRange
       ELSE ""

\* seeded fault: _intValidator that compares with the range before it
\* looks at the kind of the value
_intValidator_rangeFirst(min, max, memberDef, value) ==
    LET valueType == IF typeof(value) = "bigint" THEN "bigint"
                     ELSE IF NUMBER_MAP(typeof(value)) THEN "number" ELSE ""
        memberdefType == IF memberDef.type = "bigint" THEN "bigint" ELSE "number"
    IN IF \/ min # VNull /\ LessThan(value, min)
          \/ max # VNull /\ LessThan(max, value)
       THEN invalidRange
       ELSE IF valueType = "" THEN ErrorCodes("invalidType")
       ELSE IF memberdefType # valueType THEN "not-a-" \o memberDef.type
       ELSE ""

\* _intValidator(min, max, memberDef, value): the code thrown, "" when none
_intValidator(min, max, memberDef, value) ==
    LET valueType == IF typeof(value) = "bigint" THEN "bigint"
                     ELSE IF NUMBER_MAP(typeof(value)) THEN "number" ELSE ""
        memberdefType == IF memberDef.type = "bigint" THEN "bigint" ELSE "number"
    IN IF valueType = "" THEN ErrorCodes("invalidType")
       ELSE IF memberdefType # valueType THEN "not-a-" \o memberDef.type
       ELSE IF \/ min # VNull /\ LessThan(value, min)
               \/ max # VNull /\ LessThan(max, value)
            THEN invalidRange
       ELSE ""

\* a validator _getValidator returns
IntValidator(min, max) == [kind |-> "int", min |-> min, max |-> max]
Unsupported == [kind |-> "unsupported", min |-> VNull, max |-> VNull]
InvalidNumberType == [kind |-> "invalid", min |-> VNull, max |-> VNull]

\* _getValidator(type): the first matching case of the switch
_getValidator(type) ==
    IF type \in {"float", "float64", "number", "bigint", "int"}
    THEN IntValidator(VNull, VNull)
    ELSE IF type = "uint" THEN IntValidator(VInt(0), VNull)
    ELSE IF type = "int8"
    THEN IntValidator(Negate(Pow2(7)), MinusOne(Pow2(7)))
    ELSE IF type = "uint8" THEN IntValidator(VInt(0), MinusOne(Pow2(8)))
    ELSE IF type = "int16"
    THEN IntValidator(Negate(Pow2(15)), MinusOne(Pow2(15)))
    ELSE IF type = "uint16" THEN IntValidator(VInt(0), MinusOne(Pow2(16)))
    ELSE IF type = "int32"
    THEN IntValidator(Negate(Pow2(31)), MinusOne(Pow2(31)))
    ELSE IF type = "uint32" THEN IntValidator(VInt(0), MinusOne(Pow2(32)))
    ELSE IF type \in {"uint64", "int64", "float32", "float64"} THEN Unsupported
    ELSE InvalidNumberType

\* this._validator(memberDef, value, node): the code thrown, "" when none
validator_call(validator, memberDef, value) ==
    IF validator.kind = "unsupported" THEN unsupportedNumberType
    ELSE _intValidator(validator.min, validator.max, memberDef, value)

\* seeded fault: parse that applies memberDef.min and memberDef.max before
\* the type's validator
NumberDef_parse_minMaxFirst(type, memberDef, value) ==
    LET _validator == _getValidator(type)
        common == doCommonTypeCheck(memberDef, value)
        checked == validator_call(_validator, memberDef, common.value)
    IN IF _validator.kind = "invalid" THEN Thrown(ErrorCodes("invalidType"))
       ELSE IF common.status = "thrown" THEN common
       ELSE IF memberDef.min # VNull /\ LessThan(common.value, memberDef.min)
       THEN Thrown(ErrorCodes("outOfRange"))
       ELSE IF memberDef.max # VNull /\ LessThan(memberDef.max, common.value)
       THEN Thrown(ErrorCodes("outOfRange"))
       ELSE IF checked # "" THEN Thrown(checked)
       ELSE Returned(common.value)

\* new NumberDef(type).parse(node, memberDef), node carrying value
NumberDef_parse(type, memberDef, value) ==
    LET _validator == _getValidator(type)
        common == doCommonTypeCheck(memberDef, value)
        checked == validator_call(_validator, memberDef, common.value)
    IN IF _validator.kind = "invalid" THEN Thrown(ErrorCodes("invalidType"))
       ELSE IF common.status = "thrown" THEN common
       ELSE IF checked # "" THEN Thrown(checked)
       ELSE IF memberDef.min # VNull /\ LessThan(common.value, memberDef.min)
       THEN Thrown(ErrorCodes("outOfRange"))
       ELSE IF memberDef.max # VNull /\ LessThan(memberDef.max, common.value)
       THEN Thrown(ErrorCodes("outOfRange"))
       ELSE Returned(common.value)

\* is.isString / is.isNumber (src/src/is.ts)
isString(val) == typeof(val) = "string"
isNumber(val) == typeof(val) = "number"

\* the two addresses among the strings the model validates
AnEmail == <<"a", "@", "b", ".", "c">>
AUrl == <<"w", "w", "w", ".", "a">>

\* emailExp.test(str) and urlExp.test(str) on strings of letters and on the
\* two addresses: the e-mail expression needs local@domain, the URL
\* expression a scheme, `www.` or `user@` before the host
emailExp_test(str) == str = AnEmail
urlExp_test(str) == str \in {AnEmail, AUrl}

\* pattern.startsWith('^') ? pattern : `^${pattern}`, and the same for '$'
Anchored(pattern) ==
    LET p1 == IF pattern # <<>> /\ Head(pattern) = "^" THEN pattern
              ELSE <<"^">> \o pattern
    IN IF p1[Len(p1)] = "$" THEN p1 ELSE p1 \o <<"$">>

\* new RegExp(re).test(str) for an anchored expression ^c*$
RegExp_test(re, str) ==
    LET c == re[2]
    IN \A i \in 1..Len(str) : str[i] = c

\* seeded fault: _validatePattern that compiles the pattern at every call
_validatePattern_recompile(memberDef, value) ==
    IF memberDef.type = "string" /\ memberDef.hasPattern
    THEN LET re == Anchored(memberDef.pattern)
             cached == [memberDef EXCEPT !.re = re]
         IN [code |-> IF ~RegExp_test(re, value.s)
                      THEN ErrorCodes("invalidValue") ELSE "",
             memberDef |-> cached, compiled |-> TRUE]
    ELSE IF memberDef.type = "email" /\ ~emailExp_test(value.s)
    THEN [code |-> ErrorCodes("invalidEmail"), memberDef |-> memberDef,
          compiled |-> FALSE]
    ELSE IF memberDef.type = "url" /\ ~urlExp_test(value.s)
    THEN [code |-> ErrorCodes("invalidUrl"), memberDef |-> memberDef,
          compiled |-> FALSE]
    ELSE [code |-> "", memberDef |-> memberDef, compiled |-> FALSE]

\* _validatePattern(memberDef, value, node): the code thrown ("" when none),
\* the memberDef with the compiled expression cached, and whether
\* new RegExp(pattern) was evaluated
_validatePattern(memberDef, value) ==
    IF memberDef.type = "string" /\ memberDef.hasPattern
    THEN LET re == IF memberDef.re # <<>> THEN memberDef.re
                   ELSE Anchored(memberDef.pattern)
             cached == [memberDef EXCEPT !.re = re]
         IN [code |-> IF ~RegExp_test(re, value.s)
                      THEN ErrorCodes("invalidValue") ELSE "",
             memberDef |-> cached, compiled |-> memberDef.re = <<>>]
    ELSE IF memberDef.type = "email" /\ ~emailExp_test(value.s)
    THEN [code |-> ErrorCodes("invalidEmail"), memberDef |-> memberDef,
          compiled |-> FALSE]
    ELSE IF memberDef.type = "url" /\ ~urlExp_test(value.s)
    THEN [code |-> ErrorCodes("invalidUrl"), memberDef |-> memberDef,
          compiled |-> FALSE]
    ELSE [code |-> "", memberDef |-> memberDef, compiled |-> FALSE]

\* _process(memberDef, value, node) of StringDef, without vars: the outcome,
\* the memberDef it leaves and whether it compiled the pattern
_process(memberDef, value) ==
    LET validatedData == doCommonTypeCheck(memberDef, value)
        pattern == _validatePattern(memberDef, value)
        maxLength == memberDef.maxLength
        minLength == memberDef.minLength
        before(outcome) ==
            [outcome |-> outcome, memberDef |-> memberDef, compiled |-> FALSE]
        leave(outcome, md) ==
            [outcome |-> outcome, memberDef |-> md, compiled |-> pattern.compiled]
    IN IF validatedData.status = "thrown" THEN before(validatedData)
       ELSE IF \/ validatedData.value # value
               \/ validatedData.value.k \in {"null", "undefined"}
       THEN before(validatedData)
       ELSE IF ~isString(value)
       THEN before(Thrown(ErrorCodes("notAString")))
       ELSE IF pattern.code # "" THEN leave(Thrown(pattern.code), pattern.memberDef)
       ELSE IF /\ maxLength.k # "undefined" /\ isNumber(maxLength)
               /\ Len(value.s) > maxLength.lo
       THEN leave(Thrown(ErrorCodes("invalidMaxLength")), pattern.memberDef)
       ELSE IF /\ minLength.k # "undefined" /\ isNumber(minLength)
               /\ Len(value.s) > minLength.lo
       THEN leave(Thrown(ErrorCodes("invalidMinLength")), pattern.memberDef)
       ELSE leave(Returned(value), pattern.memberDef)

\* no call in progress
NoCall ==
    [def |-> "", type |-> "", memberDef |-> NoMemberDef, value |-> VUndefined,
     outcome |-> Pending, compiled |-> FALSE]

---------------------------------------------------------------------------
(* The inputs of the model *)

\* every sequence over S of length at most n
SeqsUpTo(S, n) == UNION {[1..k -> S] : k \in 0..n}

\* drawn exhaustively up to MaxLen
Alphabet == {"a", "1", " ", NL, HASH, ",", DOUBLE_QUOTE, MINUS}

\* longer inputs, among them the end-to-end scenarios of the spec
Scenarios ==
    { <<"a", ":", " ", "1", ",", " ", "b", ":", " ", "2">>,
      <<"~", " ", "1", ",", " ", "2", ",", " ", "3">>,
      <<"r", DOUBLE_QUOTE, "a", BACKSLASH, "n", "b", DOUBLE_QUOTE>>,
      <<DOUBLE_QUOTE, "a", BACKSLASH, "u", "0", "0", "e", "9", DOUBLE_QUOTE>>,
      <<"[", "1", ",", " ", ",", " ", "3", "]">>,
      <<HASH, " ", "h", "i", NL, "-", "-", "-", NL, "1">>,
      <<"{", "a", ":", SINGLE_QUOTE, "x", SINGLE_QUOTE, "}">>,
      <<"b", DOUBLE_QUOTE, "a", "G", "k", "=", DOUBLE_QUOTE, ",">>,
      <<DOUBLE_QUOTE, "a", BACKSLASH, "t", "b", DOUBLE_QUOTE, " ", "T">>,
      <<DOUBLE_QUOTE, BACKSLASH, "x", "4", "1", DOUBLE_QUOTE>>,
      <<DOUBLE_QUOTE, BACKSLASH, DOUBLE_QUOTE>>,
      <<"0", "x", "1", "F", ",">>,
      <<"0", "x", "1">>,
      <<"0", "c", "1", "7", " ">>,
      <<"0", "b", "1", "0", "1">>,
      <<"0", ".", "5">>,
      <<"-", "1", ".", "5", "e", "+", "2", ",">>,
      <<"1", "e", "2">>,
      <<PLUS, "a">>,
      <<PLUS, "1">>,
      <<"-", "a", " ", "b", "-", "-", "-">>,
      <<"N", ",", "F", ",", "t", "r", "u", "e">>,
      <<"r", DOUBLE_QUOTE, "a">>,
      <<"1", ",", "b", SINGLE_QUOTE, "a">>,
      <<"a", ",", DOUBLE_QUOTE, "b", BACKSLASH>>,
      <<DOUBLE_QUOTE, BACKSLASH, "u", "1", "2", DOUBLE_QUOTE>>,
      <<"1", " ", DOUBLE_QUOTE, BACKSLASH, "x", "4", DOUBLE_QUOTE>>,
      <<DOUBLE_QUOTE, BACKSLASH, "u", "0", "0", "e", "9">>,
      <<"0", "x", ",">>,
      <<"1", ".", ",">>,
      <<"1", "e", ",">>,
      <<"0", ".", "1", ".", "2", " ">>,
      <<"a", " ", "-", "-", "-">>,
      <<DOUBLE_QUOTE, "a", BACKSLASH, "u", "0", "3", "0", "1", DOUBLE_QUOTE>>,
      <<DOUBLE_QUOTE, "a", BACKSLASH, DOUBLE_QUOTE, "b", DOUBLE_QUOTE, ",">>,
      <<SINGLE_QUOTE, BACKSLASH, "n", BACKSLASH, "q", DOUBLE_QUOTE, SINGLE_QUOTE>>,
      <<"r", DOUBLE_QUOTE, "a", BACKSLASH, DOUBLE_QUOTE, "b", DOUBLE_QUOTE>>,
      <<DOUBLE_QUOTE, "{", DOUBLE_QUOTE>>,
      <<"1", ",", " ", SINGLE_QUOTE, "[", SINGLE_QUOTE>> }

Inputs == SeqsUpTo(Alphabet, MaxLen) \cup Scenarios

---------------------------------------------------------------------------
(* The tokenizer as a state machine: one action per iteration of the      *)
(* dispatch loop (one per branch) and of each inner loop.                  *)

\* the tokenizer the variables hold
Cur ==
    [input |-> input, pos |-> pos, row |-> row, col |-> col,
     reachedEnd |-> reachedEnd, tokens |-> tokens, pc |-> pc,
     frame |-> frame, error |-> error]

Become(t) ==
    /\ pos' = t.pos
    /\ row' = t.row
    /\ col' = t.col
    /\ reachedEnd' = t.reachedEnd
    /\ tokens' = t.tokens
    /\ pc' = t.pc
    /\ frame' = t.frame
    /\ error' = t.error
    /\ UNCHANGED <<input, stack, heap, lastToken, fed, result, call>>

Dispatch(branch, t) ==
    /\ pc = "dispatch"
    /\ tokenize_branch(Cur) = branch
    /\ Become(t)

\* a digit loop of parseNumber; the lexeme is capped at MaxValueLen
DigitLoop(where, t) ==
    /\ pc = where
    /\ Len(frame.value) < MaxValueLen
    /\ Become(t)

Return == Dispatch("return", tokenize_return(Cur))
SkipWhitespace == Dispatch("whitespace", advance(Cur, 1))
StartComment == Dispatch("comment", parseSingleLineComment(Cur))
StartRegularString == Dispatch("regular", parseRegularString(Cur))
StartRawString == Dispatch("raw", parseRawString(Cur))
StartByteString == Dispatch("byte", parseByteString(Cur))
Symbol == Dispatch("symbol", tokenize_symbol(Cur))
SectionSeparator == Dispatch("sectionSep", tokenize_sectionSep(Cur))
StartNumber == Dispatch("number", parseNumber(Cur))
StartOpenString == Dispatch("open", parseLiteralOrOpenString(Cur))

CommentLoop == pc = "comment" /\ Become(parseSingleLineComment_loop(Cur))
RegularStringLoop == pc = "regular" /\ Become(parseRegularString_loop(Cur))
RawStringLoop == pc = "raw" /\ Become(parseRawString_loop(Cur))
ByteStringLoop == pc = "byte" /\ Become(parseByteString_loop(Cur))
OpenStringLoop == pc = "open" /\ Become(parseLiteralOrOpenString_loop(Cur))
HexDigitLoop == DigitLoop("hexDigits", parseNumber_hex(Cur))
OctalDigitLoop == DigitLoop("octalDigits", parseNumber_octal(Cur))
BinaryDigitLoop == DigitLoop("binaryDigits", parseNumber_binary(Cur))
ZeroDigitLoop == DigitLoop("zeroDigits", parseNumber_zero(Cur))
WholeDigitLoop == DigitLoop("wholeDigits", parseNumber_whole(Cur))
FractionDigitLoop == DigitLoop("fractionDigits", parseNumber_fractionDigits(Cur))
ExponentDigitLoop == DigitLoop("exponentDigits", parseNumber_exponentDigits(Cur))

TokNext ==
    \/ Return
    \/ SkipWhitespace
    \/ StartComment
    \/ StartRegularString
    \/ StartRawString
    \/ StartByteString
    \/ Symbol
    \/ SectionSeparator
    \/ StartNumber
    \/ StartOpenString
    \/ CommentLoop
    \/ RegularStringLoop
    \/ RawStringLoop
    \/ ByteStringLoop
    \/ OpenStringLoop
    \/ HexDigitLoop
    \/ OctalDigitLoop
    \/ BinaryDigitLoop
    \/ ZeroDigitLoop
    \/ WholeDigitLoop
    \/ FractionDigitLoop
    \/ ExponentDigitLoop

NoToken == Token(0, 0, 0, <<>>, UndefinedVal, "", "")

\* a new ASTParser: stack = [], lastToken = null
AstInit ==
    /\ stack = <<>>
    /\ heap = <<>>
    /\ lastToken = NoToken
    /\ fed = 0
    /\ result = UndefinedVal
    /\ call = NoCall

TokInit ==
    /\ input \in Inputs
    /\ pos = 0
    /\ row = 1
    /\ col = 1
    /\ reachedEnd = FALSE
    /\ tokens = <<>>
    /\ pc = "dispatch"
    /\ frame = NoFrame
    /\ error = ""
    /\ AstInit

SpecTok == TokInit /\ [][TokNext]_vars

---------------------------------------------------------------------------
(* ASTParser (src/unnamed/part_001).  A container object {type, values}    *)
(* lives in the heap and is named by its index there: the stack and a      *)
(* parent's values hold the same object.  A child of a container is the    *)
(* record [isKV, key, val]: a key-value pair {key, value} or a bare value. *)
(* A parser is the record a of stack, heap, lastToken and the error thrown.*)

RefVal(id) == [k |-> "container", s |-> <<>>, m |-> id, e |-> 0]
Bare(v) == [isKV |-> FALSE, key |-> <<>>, val |-> v]
KeyVal(key, v) == [isKV |-> TRUE, key |-> key, val |-> v]

\* is.isParserTree / is.isKeyVal, on a child
isParserTree(child) == ~child.isKV /\ child.val.k = "container"
isKeyVal(child) == child.isKV

RECURSIVE NatToString(_)
NatToString(n) ==
    IF n < 10 THEN <<<<"0", "1", "2", "3", "4", "5", "6", "7", "8", "9">>[n + 1]>>
    ELSE NatToString(n \div 10) \o NatToString(n % 10)

Zeros(n) == [i \in 1..n |-> "0"]

\* Number.prototype.toString of m * 10^e, in the range written without exponent
NumberToString(v) ==
    LET d == NatToString(IF v.m < 0 THEN -v.m ELSE v.m)
        sign == IF v.m < 0 THEN <<"-">> ELSE <<>>
    IN IF v.e >= 0 THEN sign \o d \o Zeros(v.e)
       ELSE IF Len(d) > -v.e
            THEN sign \o SubSeq(d, 1, Len(d) + v.e) \o <<".">>
                      \o SubSeq(d, Len(d) + v.e + 1, Len(d))
       ELSE sign \o <<"0", ".">> \o Zeros(-v.e - Len(d)) \o d

\* lastVal.toString() of a string, number or boolean
PrimitiveToString(v) ==
    CASE v.k = "string" -> v.s
      [] v.k = "number" -> NumberToString(v)
      [] v.k = "NaN" -> <<"N", "a", "N">>
      [] v.k = "boolean" -> IF v.m = 1 THEN <<"t", "r", "u", "e">>
                            ELSE <<"f", "a", "l", "s", "e">>

\* `lastVal && [...].indexOf(typeof lastVal) > -1`: a truthy primitive
TruthyPrimitive(child) ==
    /\ ~child.isKV
    /\ \/ child.val.k = "string" /\ child.val.s # <<>>
       \/ child.val.k = "number" /\ child.val.m # 0
       \/ child.val.k = "boolean" /\ child.val.m = 1

NewParser == [stack |-> <<>>, heap |-> <<>>, lastToken |-> NoToken, error |-> ""]

Top(a) == a.stack[Len(a.stack)]

\* getObject(): the top of the stack, after pushing a root on an empty stack
getObject(a) ==
    IF Len(a.stack) = 0
    THEN [a EXCEPT !.heap = Append(@, [type |-> "object", values |-> <<>>]),
                   !.stack = <<Len(a.heap) + 1>>]
    ELSE a

\* addValue(value)
ast_addValue(a, value) ==
    LET a1 == getObject(a)
        obj == Top(a1)
        values == a1.heap[obj].values
    IN IF a1.lastToken # NoToken /\ a1.lastToken.value = StrVal(<<":">>)
       THEN IF values # <<>> /\ isKeyVal(values[Len(values)])
            THEN [a1 EXCEPT !.heap[obj].values[Len(values)].val = value]
            ELSE a1
       ELSE [a1 EXCEPT !.heap[obj].values = Append(@, Bare(value))]

\* push(type)
ast_push(a, type) ==
    LET a1 == getObject(a)
        newObject == Len(a1.heap) + 1
        a2 == [a1 EXCEPT !.heap = Append(@, [type |-> type, values |-> <<>>])]
        a3 == ast_addValue(a2, RefVal(newObject))
    IN [a3 EXCEPT !.stack = Append(@, newObject)]

\* throwError(token, message)
throwError(a, message) == [a EXCEPT !.error = message]

\* pop(type, token)
ast_pop(a, type) ==
    LET a1 == getObject(a)
    IN IF a1.heap[Top(a1)].type # type
       THEN throwError(a1, "invalid-bracket")
       ELSE [a1 EXCEPT !.stack = SubSeq(@, 1, Len(@) - 1)]

\* the `:` branch of process
process_colon(a) ==
    LET obj == Top(a)
        values == a.heap[obj].values
    IN IF values # <<>> /\ TruthyPrimitive(values[Len(values)])
       THEN [a EXCEPT !.heap[obj].values[Len(values)] =
                         KeyVal(PrimitiveToString(values[Len(values)].val),
                                UndefinedVal)]
       ELSE a

\* seeded fault: every `,` adds an empty value, whatever preceded it
process_comma_always(a) == ast_addValue(a, StrVal(<<>>))

\* the `,` branch of process
process_comma(a) ==
    IF a.lastToken # NoToken /\ a.lastToken.value = StrVal(<<",">>)
    THEN ast_addValue(a, StrVal(<<>>))
    ELSE a

\* which branch of process(token) is taken
process_branch(token) ==
    IF token.value = StrVal(<<"{">>) THEN "curly"
    ELSE IF token.value = StrVal(<<"[">>) THEN "bracket"
    ELSE IF token.type # "sep" THEN "value"
    ELSE IF token.value = StrVal(<<":">>) THEN "colon"
    ELSE IF token.value = StrVal(<<",">>) THEN "comma"
    ELSE IF token.value \in {StrVal(<<"}">>), StrVal(<<"]">>)} THEN "close"
    ELSE "none"

\* process(token)
process(a, token) ==
    LET a0 == getObject(a)
        b == process_branch(token)
        a1 == CASE b = "curly" -> ast_push(a0, "object")
                [] b = "bracket" -> ast_push(a0, "array")
                [] b = "value" -> ast_addValue(a0, token.value)
                [] b = "colon" -> process_colon(a0)
                [] b = "comma" -> process_comma(a0)
                [] b = "close" ->
                     ast_pop(a0, IF token.value = StrVal(<<"}">>)
                                 THEN "object" ELSE "array")
                [] OTHER -> a0
    IN IF a1.error # "" THEN a1 ELSE [a1 EXCEPT !.lastToken = token]

\* What toObject() returns, as a record with the fields of a value and the
\* entries c of a mapping: a set of <<property name, value>>.
FromValue(v) == [k |-> v.k, s |-> v.s, m |-> v.m, e |-> v.e, c |-> {}]
Mapping(kind, entries) == [k |-> kind, s |-> <<>>, m |-> 0, e |-> 0, c |-> entries]
JSNull == FromValue(NullVal)
JSUndefined == FromValue(UndefinedVal)

\* seeded fault: an assignment to a property already set is dropped
Put_firstWins(container, key, v) ==
    IF \E x \in container.c : x[1] = key THEN container
    ELSE [container EXCEPT !.c = @ \cup {<<key, v>>}]

\* container[key] = v
Put(container, key, v) ==
    [container EXCEPT !.c = {x \in @ : x[1] # key} \cup {<<key, v>>}]

\* generateObject(root, container) of toObject, from child index onwards
RECURSIVE generateObject_from(_, _, _, _)
generateObject_from(hp, root, index, container) ==
    IF index >= Len(hp[root].values) THEN container
    ELSE LET value == hp[root].values[index + 1]
             name == NatToString(index)
             sub(id) == generateObject_from(hp, id, 0, Mapping(hp[id].type, {}))
             filled ==
                 IF isParserTree(value)
                 THEN IF hp[value.val.m].type \in {"object", "array"}
                      THEN Put(container, name, sub(value.val.m))
                      ELSE container
                 ELSE IF isKeyVal(value)
                      THEN IF value.val.k = "container"
                           THEN Put(container, value.key, sub(value.val.m))
                           ELSE Put(container, value.key, FromValue(value.val))
                 ELSE Put(container, name, FromValue(value.val))
         IN generateObject_from(hp, root, index + 1, filled)

generateObject(hp, root, container) == generateObject_from(hp, root, 0, container)

\* a child as the parser holds it (not materialized): a container is the
\* node {type, values}, a key-value pair the object {key, value}
RECURSIVE RawChild(_, _)
RawChild(hp, child) ==
    IF child.isKV
    THEN [k |-> "keyval", s |-> child.key, m |-> 0, e |-> 0,
          c |-> {<<<<"v", "a", "l", "u", "e">>, RawChild(hp, Bare(child.val))>>}]
    ELSE IF child.val.k = "container"
    THEN [k |-> "node", s |-> <<hp[child.val.m].type>>, m |-> 0, e |-> 0,
          c |-> {<<NatToString(i - 1), RawChild(hp, hp[child.val.m].values[i])>> :
                    i \in 1..Len(hp[child.val.m].values)}]
    ELSE FromValue(child.val)

\* toObject()
toObject(a) ==
    IF Len(a.stack) = 0 THEN JSNull
    ELSE LET tree == a.stack[1]
             values == a.heap[tree].values
         IN IF Len(values) = 0 THEN JSUndefined
            ELSE IF Len(values) = 1 THEN RawChild(a.heap, values[1])
            ELSE generateObject(a.heap, tree, Mapping("object", {}))

---------------------------------------------------------------------------
(* The parser as a state machine: the caller passes the tokens to          *)
(* process() in order, then calls toObject().                              *)

\* the parser the variables hold
CurAst == [stack |-> stack, heap |-> heap, lastToken |-> lastToken, error |-> ""]

Process ==
    /\ pc = "returned"
    /\ fed < Len(tokens)
    /\ LET a == process(CurAst, tokens[fed + 1])
       IN /\ stack' = a.stack
          /\ heap' = a.heap
          /\ lastToken' = a.lastToken
          /\ error' = a.error
          /\ pc' = IF a.error # "" THEN "parserThrown" ELSE pc
    /\ fed' = fed + 1
    /\ UNCHANGED <<input, pos, row, col, reachedEnd, tokens, frame, result, call>>

ToObject ==
    /\ pc = "returned"
    /\ fed = Len(tokens)
    /\ result' = toObject(CurAst)
    /\ pc' = "done"
    /\ UNCHANGED <<input, pos, row, col, reachedEnd, tokens, frame, error,
                   stack, heap, lastToken, fed, call>>

AstNext == Process \/ ToObject

\* the tokens a caller may pass: structure tokens of type "sep", as the
\* parser tests them, and two values
SepToken(c) == Token(0, 1, 1, <<c>>, StrVal(<<c>>), "sep", "")
TokenAlphabet ==
    {SepToken("{"), SepToken("}"), SepToken("["), SepToken("]"),
     SepToken(":"), SepToken(","),
     Token(0, 1, 1, <<"a">>, StrVal(<<"a">>), "string", ""),
     Token(0, 1, 1, <<"1">>, NumVal(1, 0), "number", "")}

AstInit0 ==
    /\ input = <<>>
    /\ pos = 0
    /\ row = 1
    /\ col = 1
    /\ reachedEnd = FALSE
    /\ tokens \in SeqsUpTo(TokenAlphabet, MaxTokens)
    /\ pc = "returned"
    /\ frame = NoFrame
    /\ error = ""
    /\ AstInit

SpecAst == AstInit0 /\ [][AstNext]_vars

\* sources of the form `k1: v1, k2: v2`
Keys == {"a", "b", "k"}
Scalars ==
    {<<"1">>, <<"2", "5">>, <<"x">>, <<"T">>, <<DOUBLE_QUOTE, "s", DOUBLE_QUOTE>>}
KeyValueSource(k1, v1, k2, v2) ==
    <<k1, ":", " ">> \o v1 \o <<",", " ", k2, ":", " ">> \o v2
KeyValueSources ==
    {KeyValueSource(k1, v1, k2, v2) :
        k1 \in Keys, v1 \in Scalars, k2 \in Keys, v2 \in Scalars}

Init ==
    /\ input \in KeyValueSources \cup Scenarios
    /\ pos = 0
    /\ row = 1
    /\ col = 1
    /\ reachedEnd = FALSE
    /\ tokens = <<>>
    /\ pc = "dispatch"
    /\ frame = NoFrame
    /\ error = ""
    /\ AstInit

Next == TokNext \/ AstNext

\* text -> Tokenizer -> tokens -> ASTParser -> toObject()
Spec == Init /\ [][Next]_vars

---------------------------------------------------------------------------
(* The type definitions as a state machine: a call is drawn with its       *)
(* arguments and one action runs the whole parse.                          *)

\* the bounds of the width-qualified types, with their neighbours, and
\* values of every other kind
RangeEnds ==
    {VInt(0), Negate(Pow2(7)), MinusOne(Pow2(7)), MinusOne(Pow2(8)),
     Negate(Pow2(15)), MinusOne(Pow2(15)), MinusOne(Pow2(16)),
     Negate(Pow2(31)), MinusOne(Pow2(31)), MinusOne(Pow2(32))}
NumberValues ==
    UNION {{MinusOne(b), b, PlusOne(b)} : b \in RangeEnds}
    \cup {VNum(0, 1, TRUE), VNum(-1, Radix - 1, TRUE), VNum(0, 127, TRUE), VNaN,
          VInt(100), VBigInt(0, 5), VBigInt(0, 100), VBigInt(0, 256),
          VStr(<<"a">>), VNull,
          VUndefined}

NumberTypeNames ==
    {NUMBER_TYPES[i] : i \in 1..Len(NUMBER_TYPES)} \cup {"int64", "decimal"}

NumberMemberDefs ==
    {[NoMemberDef EXCEPT !.optional = o, !.null = n,
                         !.default = d, !.hasChoices = c,
                         !.choices = IF c THEN {VInt(0), VInt(127)} ELSE {},
                         !.min = lo, !.max = hi] :
        o \in BOOLEAN, n \in BOOLEAN, d \in {VUndefined, VInt(5)},
        c \in BOOLEAN, lo \in {VNull, VInt(0)}, hi \in {VNull, VInt(100)}}

NumberCalls ==
    {[def |-> "number", type |-> type,
      memberDef |-> [md EXCEPT !.type = type], value |-> v,
      outcome |-> Pending, compiled |-> FALSE] :
        type \in NumberTypeNames, md \in NumberMemberDefs,
        v \in NumberValues}

StringValues ==
    {VStr(str) : str \in SeqsUpTo({"a", "b"}, MaxStrLen) \cup {AnEmail, AUrl}}
    \cup {VNull, VUndefined, VInt(5)}

Lengths == {VUndefined} \cup {VInt(n) : n \in 0..MaxStrLen}

StringMemberDefs ==
    {[NoMemberDef EXCEPT !.type = type, !.optional = o, !.null = n,
                         !.default = d, !.hasChoices = c,
                         !.choices = IF c THEN {VStr(<<"a">>), VStr(<<"a", "b">>)}
                                     ELSE {},
                         !.minLength = lo, !.maxLength = hi,
                         !.hasPattern = p # <<>>, !.pattern = p] :
        type \in {"string", "email", "url"}, o \in BOOLEAN, n \in BOOLEAN,
        d \in {VUndefined, VStr(<<"d">>)}, c \in BOOLEAN,
        lo \in Lengths, hi \in Lengths,
        p \in {<<>>, <<"a", "*">>, <<"^", "a", "*", "$">>}}

StringCalls ==
    {[def |-> "string", type |-> md.type, memberDef |-> md, value |-> v,
      outcome |-> Pending, compiled |-> FALSE] :
        md \in StringMemberDefs, v \in StringValues}

\* new NumberDef(type).parse(node, memberDef)
NumberParse ==
    /\ call.def = "number"
    /\ call.outcome = Pending
    /\ call' = [call EXCEPT !.outcome =
                   NumberDef_parse(call.type, call.memberDef, call.value)]
    /\ UNCHANGED <<tokVars, stack, heap, lastToken, fed, result>>

\* new StringDef(type).parse(data, memberDef): the first validation takes
\* the value the call was drawn with, a later one on the same memberDef any
\* value
StringParse ==
    /\ call.def = "string"
    /\ \E value \in IF call.outcome = Pending THEN {call.value}
                     ELSE StringValues :
          LET done == _process(call.memberDef, value)
          IN call' = [call EXCEPT !.value = value,
                                  !.outcome = done.outcome,
                                  !.memberDef = done.memberDef,
                                  !.compiled = done.compiled]
    /\ UNCHANGED <<tokVars, stack, heap, lastToken, fed, result>>

ValNext == NumberParse \/ StringParse

ValInit ==
    /\ input = <<>>
    /\ pos = 0
    /\ row = 1
    /\ col = 1
    /\ reachedEnd = FALSE
    /\ tokens = <<>>
    /\ pc = "idle"
    /\ frame = NoFrame
    /\ error = ""
    /\ stack = <<>>
    /\ heap = <<>>
    /\ lastToken = NoToken
    /\ fed = 0
    /\ result = UndefinedVal
    /\ call \in NumberCalls \cup StringCalls

SpecVal == ValInit /\ [][ValNext]_vars

---------------------------------------------------------------------------
(* Claims *)

IsSep(token, c) == token.type = "sep" /\ token.value = StrVal(<<c>>)

\* the (type, value) pairs of a token sequence
TypesAndValues(ts) == [i \in 1..Len(ts) |-> <<ts[i].type, ts[i].value>>]

\* C1: every iteration of the dispatch loop and of every inner scanning
\* loop of tokenize() either increases pos or exits the loop it is in.
C1_EveryIterationAdvancesOrExits ==
    [][(pc \in Running) => (pos' > pos \/ pc' # pc)]_vars

\* the value the spec gives a scalar of KeyValueSources
ScalarValue(v) ==
    CASE v = <<"1">> -> FromValue(NumVal(1, 0))
      [] v = <<"2", "5">> -> FromValue(NumVal(25, 0))
      [] v = <<"x">> -> FromValue(StrVal(<<"x">>))
      [] v = <<"T">> -> FromValue(BoolVal(TRUE))
      [] v = <<DOUBLE_QUOTE, "s", DOUBLE_QUOTE>> -> FromValue(StrVal(<<"s">>))

\* C2: for a source `k1: v1, k2: v2` with distinct keys, tokenize(), then
\* process() on every token, then toObject() gives the mapping {k1: v1, k2: v2}.
C2_KeyValueSourceGivesMapping ==
    \A k1 \in Keys, k2 \in Keys, v1 \in Scalars, v2 \in Scalars :
        (pc = "done" /\ k1 # k2 /\ input = KeyValueSource(k1, v1, k2, v2))
        => result = Mapping("object", {<<<<k1>>, ScalarValue(v1)>>,
                                       <<<<k2>>, ScalarValue(v2)>>})

\* C3: in process(), `{` pushes exactly one object container and `[` exactly
\* one array container; `}` / `]` either pops a container pushed by the
\* matching opening bracket, never the root, or raises the mismatch error and
\* then leaves the stack (the root once created) and lastToken unchanged.
C3_BracketsPushAndPopMatching ==
    [][(pc = "returned" /\ fed < Len(tokens) /\ fed' = fed + 1) =>
        LET token == tokens[fed + 1]
            before == getObject(CurAst).stack
            closes(c, type) ==
                IsSep(token, c) =>
                    \/ /\ error' # ""
                       /\ stack' = before
                       /\ lastToken' = lastToken
                    \/ /\ error' = ""
                       /\ Len(before) >= 2
                       /\ heap[before[Len(before)]].type = type
                       /\ stack' = SubSeq(before, 1, Len(before) - 1)
            opens(c, type) ==
                IsSep(token, c) =>
                    /\ Len(stack') = Len(before) + 1
                    /\ SubSeq(stack', 1, Len(before)) = before
                    /\ Len(heap') = Len(getObject(CurAst).heap) + 1
                    /\ heap'[stack'[Len(stack')]].type = type
        IN /\ opens("{", "object")
           /\ opens("[", "array")
           /\ closes("}", "object")
           /\ closes("]", "array")]_vars

\* C4: when process() has consumed every token of a non-empty document
\* without an error, the stack holds exactly the root created by the first
\* insertion.
C4_StackIsRootAtDocumentEnd ==
    (pc = "returned" /\ fed = Len(tokens) /\ Len(tokens) > 0)
    => (Len(stack) = 1 /\ stack[1] = 1)

\* C5: the text of every returned token is the source substring at its
\* position: text = input[position, position + length(text)).
C5_TextIsSourceSubstring ==
    pc = "returned" =>
        \A i \in 1..Len(tokens) :
            tokens[i].text = Substring(input, tokens[i].position,
                                       tokens[i].position + Len(tokens[i].text))

\* the row and column of 0-based position p, counted from the text
RowOf(inp, p) == 1 + Cardinality({i \in 1..p : inp[i] = NL})
ColOf(inp, p) ==
    LET newlines == {i \in 1..p : inp[i] = NL}
        last == IF newlines = {} THEN 0
                ELSE CHOOSE i \in newlines : \A j \in newlines : j <= i
    IN 1 + p - last

\* C6: every token carries the 0-based position of its first character, and
\* the row and column of that position: row = 1 + newlines before it,
\* col = 1 + characters since the last newline before it.
C6_TokenCoordinates ==
    \A i \in 1..Len(tokens) :
        /\ tokens[i].position \in 0..(Len(input) - 1)
        /\ CharAt(input, tokens[i].position) = Head(tokens[i].text)
        /\ tokens[i].row = RowOf(input, tokens[i].position)
        /\ tokens[i].col = ColOf(input, tokens[i].position)

\* a token on a later line, after the first column
C6_Witness ==
    /\ pc = "returned"
    /\ \E i \in 1..Len(tokens) : tokens[i].row > 1 /\ tokens[i].col > 1

\* C7: tokens are emitted in source order: the position of each token is at
\* most the position of the next.
C7_PositionsAscend ==
    \A i \in 1..(Len(tokens) - 1) : tokens[i].position <= tokens[i + 1].position

C7_Witness == pc = "returned" /\ Len(tokens) >= 3

\* C10: a `-` or `+` that starts a token, is not followed by a digit and
\* does not start `---` gives no NUMBER token: it begins an open string.
C10_SignWithoutDigitIsOpenString ==
    \A i \in 1..Len(tokens) :
        LET token == tokens[i]
        IN (/\ CharAt(input, token.position) \in {PLUS, MINUS}
            /\ ~isDigit(CharAt(input, token.position + 1))
            /\ token.type # "SECTION_SEP")
           => (/\ token.type = "STRING"
               /\ token.subType = "OPEN_STRING"
               /\ Head(token.text) = CharAt(input, token.position))

\* the input without the characters at 0-based positions from .. to - 1
DeleteRegion(inp, from, to) ==
    Substring(inp, 0, from) \o Substring(inp, to, Len(inp))

\* the input with character c inserted at 0-based position p
InsertAt(inp, p, c) ==
    Substring(inp, 0, p) \o <<c>> \o Substring(inp, p, Len(inp))

\* the 0-based position of the first newline at or after p, or -1
NextNewline(inp, p) ==
    LET newlines == {q \in p..(Len(inp) - 1) : CharAt(inp, q) = NL}
    IN IF newlines = {} THEN -1
       ELSE CHOOSE q \in newlines : \A r \in newlines : q <= r

\* both inputs tokenize, to the same (type, value) pairs
SameTokens(a, b) ==
    /\ tokenize(a).pc = "returned"
    /\ tokenize(b).pc = "returned"
    /\ TypesAndValues(tokenize(a).tokens) = TypesAndValues(tokenize(b).tokens)

\* the tokenizer is about to start a comment that a newline ends
AtComment ==
    /\ pc = "dispatch"
    /\ CharAt(input, pos) = HASH
    /\ NextNewline(input, pos) >= 0
    /\ tokenize(input).pc = "returned"

WithoutComment == DeleteRegion(input, pos, NextNewline(input, pos) + 1)

\* C8 as stated: deleting a region from a `#` outside quoted strings through
\* the next newline leaves the (type, value) pairs of the tokens unchanged.
C8_DeletingCommentKeepsTokens ==
    AtComment => SameTokens(input, WithoutComment)

\* the last token before the comment cannot grow into the text after it: it
\* is no open string or literal, and a number only when whitespace follows it
NothingToMerge ==
    \/ tokens = <<>>
    \/ LET last == tokens[Len(tokens)]
       IN /\ last.type \notin {"BOOLEAN", "NULL"}
          /\ ~(last.type = "STRING" /\ last.subType = "OPEN_STRING")
          /\ last.type = "NUMBER" => isWhitespace(CharAt(input, pos - 1))

\* C8 amended: deleting the region from a `#` that starts a comment through
\* the next newline leaves the (type, value) pairs unchanged when the last
\* token before the `#`, if any, is a structural symbol, a quoted, raw or
\* byte string, `---`, or a number separated from the `#` by whitespace.
C8_DeletingCommentKeepsTokens_Amended ==
    (AtComment /\ NothingToMerge) => SameTokens(input, WithoutComment)

\* a comment between two tokens is deleted
C8_Witness ==
    /\ AtComment
    /\ NothingToMerge
    /\ tokens # <<>>
    /\ Len(tokenize(input).tokens) > Len(tokens)
    /\ NextNewline(input, pos) > pos

ModelWhitespace == {" ", NL}

\* C9 as stated: inserting or removing whitespace at the boundary between
\* two consecutive tokens leaves the (type, value) pairs unchanged.
C9_WhitespaceBetweenTokensIsInsignificant ==
    pc = "returned" =>
        \A i \in 2..Len(tokens) :
            LET p == tokens[i].position
            IN /\ \A w \in ModelWhitespace : SameTokens(input, InsertAt(input, p, w))
               /\ isWhitespace(CharAt(input, p - 1))
                  => SameTokens(input, DeleteRegion(input, p - 1, p))

\* C9 amended: inserting a whitespace character immediately before the first
\* character of a token that has a predecessor, or removing one of two equal
\* adjacent whitespace characters immediately before it, leaves the
\* (type, value) pairs unchanged.
C9_WhitespaceBetweenTokensIsInsignificant_Amended ==
    pc = "returned" =>
        \A i \in 2..Len(tokens) :
            LET p == tokens[i].position
            IN /\ \A w \in ModelWhitespace : SameTokens(input, InsertAt(input, p, w))
               /\ (isWhitespace(CharAt(input, p - 1))
                   /\ CharAt(input, p - 2) = CharAt(input, p - 1))
                  => SameTokens(input, DeleteRegion(input, p - 1, p))

\* a token after an open string, with two equal whitespace characters before it
C9_Witness ==
    /\ pc = "returned"
    /\ \E i \in 2..Len(tokens) :
          LET p == tokens[i].position
          IN /\ isWhitespace(CharAt(input, p - 1))
             /\ CharAt(input, p - 2) = CharAt(input, p - 1)
             /\ tokens[i - 1].subType = "OPEN_STRING"

\* a <= b on finite numbers, by their digits
AtMost(a, b) ==
    \/ a.hi < b.hi
    \/ a.hi = b.hi /\ a.lo < b.lo
    \/ a.hi = b.hi /\ a.lo = b.lo /\ (a.half => b.half)

\* the range the spec gives a width-qualified type: [least, greatest],
\* greatest absent for uint
WidthQualified == {"int8", "int16", "int32", "uint8", "uint16", "uint32", "uint"}
Least(type) ==
    CASE type = "int8" -> VNum(-1, 65408, FALSE)
      [] type = "int16" -> VNum(-1, 32768, FALSE)
      [] type = "int32" -> VNum(-32768, 0, FALSE)
      [] OTHER -> VNum(0, 0, FALSE)
Greatest(type) ==
    CASE type = "int8" -> VNum(0, 127, FALSE)
      [] type = "int16" -> VNum(0, 32767, FALSE)
      [] type = "int32" -> VNum(32767, 65535, FALSE)
      [] type = "uint8" -> VNum(0, 255, FALSE)
      [] type = "uint16" -> VNum(0, 65535, FALSE)
      [] type = "uint32" -> VNum(65535, 65535, FALSE)
InTypeRange(type, v) ==
    /\ AtMost(Least(type), v)
    /\ type # "uint" => AtMost(v, Greatest(type))

\* a finished NumberDef.parse of a finite number that the common check
\* passed on unchanged
ParsedFiniteNumber ==
    /\ call.def = "number"
    /\ call.outcome # Pending
    /\ call.value.k = "number"
    /\ ~call.memberDef.hasChoices

ParsedNumber == call.def = "number" /\ call.outcome # Pending

UnsupportedTypes == {"int64", "uint64", "float32", "float64"}

\* the common check handed the value on unchanged
PassedCommonCheck ==
    doCommonTypeCheck(call.memberDef, call.value) = Returned(call.value)

\* C12: parse of a NumberDef of type int64, uint64, float32 or float64 fails
\* with unsupported-number-type for every input value that reaches the
\* type's validator, and never returns a value.
C12_UnsupportedTypesAlwaysFail ==
    (ParsedNumber /\ call.type \in UnsupportedTypes /\ PassedCommonCheck) =>
        call.outcome = Thrown("unsupported-number-type")

\* a StringDef parse that has run
ParsedString == call.def = "string" /\ call.outcome # Pending

\* the value is a string that the common check and the pattern check pass
PassedPatternCheck ==
    /\ PassedCommonCheck
    /\ isString(call.value)
    /\ _validatePattern(call.memberDef, call.value).code = ""

\* C13: a string that passes the common check and the pattern check is
\* accepted exactly when minLength <= value.length <= maxLength; it fails
\* with invalid-max-length iff it is longer than maxLength and with
\* invalid-min-length iff it is shorter than minLength.
C13_LengthLimits ==
    (ParsedString /\ PassedPatternCheck) =>
        LET n == Len(call.value.s)
            minLength == call.memberDef.minLength
            maxLength == call.memberDef.maxLength
            tooLong == maxLength # VUndefined /\ n > maxLength.lo
            tooShort == minLength # VUndefined /\ n < minLength.lo
        IN /\ (call.outcome = Thrown("invalid-max-length")) <=> tooLong
           /\ (call.outcome = Thrown("invalid-min-length")) <=>
                  (tooShort /\ ~tooLong)
           /\ (call.outcome = Returned(call.value)) <=> (~tooLong /\ ~tooShort)

\* a parse of a type definition that could be constructed has run
ParsedTypeDef ==
    \/ ParsedString
    \/ ParsedNumber /\ _getValidator(call.type) # InvalidNumberType

\* C14: for every type definition, parse of null with memberDef.null set
\* returns null, and parse of an absent value with memberDef.optional set
\* returns the configured default (or undefined), neither raising.
C14_NullAndAbsentBypassValidation ==
    ParsedTypeDef =>
        /\ (call.value = VNull /\ call.memberDef.null) =>
               call.outcome = Returned(VNull)
        /\ (call.value = VUndefined /\ call.memberDef.optional) =>
               call.outcome = Returned(call.memberDef.default)

\* the string family alone keeps the rule
C14_StringFamily == ParsedString => C14_NullAndAbsentBypassValidation

\* the closed set of error codes of the spec's error-handling section
ClosedErrorCodes ==
    {"invalid-char", "incomplete-escape-sequence", "open-bracket",
     "invalid-bracket", "expecting-a-separator", "invalid-header-item",
     "multiple-headers-found", "invalid-type", "invalid-value", "not-a-string",
     "not-a-number", "not-an-integer", "null-not-allowed", "value-required",
     "out-of-range", "invalid-range", "invalid-min-value", "invalid-max-value",
     "invalid-min-length", "invalid-max-length", "value-not-in-choice",
     "invalid-choice", "invalid-schema", "invalid-array", "invalid-object"}

\* C15: every error raised by the string validator or the number validator
\* carries a code of the closed set.
C15_ErrorCodesAreClosed ==
    call.outcome.status = "thrown" => call.outcome.code \in ClosedErrorCodes

\* the codes the validators raise outside the closed set
C15_CodesOutsideTheSet ==
    call.outcome.status = "thrown" =>
        call.outcome.code \in ClosedErrorCodes \cup
            {"invalid-email", "invalid-url", "unsupported-number-type"} \cup
            {"not-a-" \o NUMBER_TYPES[i] : i \in 1..Len(NUMBER_TYPES)} \cup
            {"not-a-int64"}

\* the regular string scanned from index i of s has no closing quote q, ends
\* right after a backslash, or holds a \u or \x escape without its 4 or 2
\* hex digits
RECURSIVE StringFault(_, _, _)
StringFault(s, i, q) ==
    IF i >= Len(s) THEN TRUE
    ELSE IF CharAt(s, i) = q THEN FALSE
    ELSE IF CharAt(s, i) # BACKSLASH THEN StringFault(s, i + 1, q)
    ELSE IF i + 1 >= Len(s) THEN TRUE
    ELSE IF CharAt(s, i + 1) = "u"
    THEN ~HexN(Substring(s, i + 2, i + 6), 4) \/ StringFault(s, i + 6, q)
    ELSE IF CharAt(s, i + 1) = "x"
    THEN ~HexN(Substring(s, i + 2, i + 4), 2) \/ StringFault(s, i + 4, q)
    ELSE StringFault(s, i + 2, q)

\* the tokenizer is inside a string that is faulty from here on
InFaultyString ==
    \/ pc = "regular" /\ StringFault(input, pos, frame.encloser)
    \/ /\ pc \in {"raw", "byte"}
       /\ \A i \in pos..(Len(input) - 1) : CharAt(input, i) # frame.encloser

StringErrors ==
    {"String is not closed", "Raw string is not closed",
     "Binary string is not closed", "Invalid Unicode escape sequence",
     "Invalid hex escape sequence",
     "String ends with an unprocessed escape sequence"}

\* C16: when the input holds a regular, raw or byte string with no closing
\* quote, a regular string ending right after a backslash, or a \u or \x
\* escape without its 4 or 2 hex digits, tokenize raises an error and
\* returns no token sequence, however many tokens it had recognised.
C16_FaultyStringRaises ==
    /\ InFaultyString => tokenize(input).pc = "thrown"
    /\ (pc = "thrown" /\ error \in StringErrors) =>
           tokenize(input).pc = "thrown"
    /\ pc = "returned" => tokenize(input) = Cur

C16_Witness ==
    /\ pc = "thrown"
    /\ error \in StringErrors
    /\ Len(tokens) >= 2

\* the children of the current container (none before the root exists)
Children(st, hp) == IF st = <<>> THEN <<>> ELSE hp[st[Len(st)]].values

IsComma(token) == token.type = "sep" /\ token.value = StrVal(<<",">>)
IsValueToken(token) == process_branch(token) = "value"
EmptyString == Bare(StrVal(<<>>))

\* process(token) is run on a `,`
ProcessesComma ==
    /\ pc = "returned"
    /\ fed < Len(tokens)
    /\ fed' = fed + 1
    /\ IsComma(tokens[fed + 1])

\* a `,` after a `,` appends one empty string to the current container, any
\* other `,` leaves its children as they are; no other container changes
CommaStep ==
    ProcessesComma =>
        /\ Children(stack', heap') =
               IF IsComma(lastToken)
               THEN Append(Children(stack, heap), EmptyString)
               ELSE Children(stack, heap)
        /\ Len(stack') = Max(Len(stack), 1)
        /\ \A i \in 1..Len(heap) :
               (stack = <<>> \/ i # stack[Len(stack)]) => heap'[i] = heap[i]

\* the tokens fed are a value, n >= 1 commas and a value, all in the root
ValueCommasValue ==
    /\ fed >= 3
    /\ IsValueToken(tokens[1])
    /\ IsValueToken(tokens[fed])
    /\ \A i \in 2..(fed - 1) : IsComma(tokens[i])

NameOf(values, i) ==
    IF values[i].isKV THEN values[i].key ELSE NatToString(i - 1)

\* a container materialized: a mapping for an object, a sequence for an
\* array, each child stored under its name (a later child of the same name
\* replaces an earlier one), nested containers materialized likewise
RECURSIVE Materialized(_, _)
Materialized(hp, id) ==
    LET values == hp[id].values
        last(i) == \A j \in (i + 1)..Len(values) :
                       NameOf(values, j) # NameOf(values, i)
        valueOf(child) == IF child.val.k = "container"
                          THEN Materialized(hp, child.val.m)
                          ELSE FromValue(child.val)
    IN Mapping(hp[id].type,
               {<<NameOf(values, i), valueOf(values[i])>> :
                   i \in {j \in 1..Len(values) : last(j)}})

\* toObject() is run
CallsToObject == pc = "returned" /\ pc' = "done"

\* C18: toObject() returns nothing for a root without children, the child
\* for a root with one child, and otherwise the root materialized as one
\* mapping; it leaves the stack and the tree as they are, so a second call
\* returns an equal result.
C18_ToObjectMaterializesRoot ==
    /\ [](pc = "done" =>
            IF stack = <<>> THEN result = JSNull
            ELSE LET values == heap[stack[1]].values
                 IN IF Len(values) = 0 THEN result = JSUndefined
                    ELSE IF Len(values) = 1
                    THEN result = RawChild(heap, values[1])
                    ELSE result = Materialized(heap, stack[1]))
    /\ [][CallsToObject =>
            /\ stack' = stack
            /\ heap' = heap
            /\ result' = toObject([stack |-> stack', heap |-> heap',
                                   lastToken |-> lastToken', error |-> ""])]_vars

\* a root of several children with a pair, a bare value and a nested array
C18_Witness ==
    /\ pc = "done"
    /\ stack # <<>>
    /\ Len(heap[stack[1]].values) >= 2
    /\ \E i \in 1..Len(heap[stack[1]].values) : heap[stack[1]].values[i].isKV
    /\ \E x \in result.c : x[2].k = "array"

\* the lexemes of the number grammar and the numbers they denote
AllOf(s, digits) == s # <<>> /\ \A i \in 1..Len(s) : s[i] \in digits
FirstIndex(s, chars) ==
    IF \E i \in 1..Len(s) : s[i] \in chars
    THEN CHOOSE i \in 1..Len(s) :
             s[i] \in chars /\ \A j \in 1..(i - 1) : s[j] \notin chars
    ELSE 0
Prefixed(u, letters) == Len(u) >= 2 /\ u[1] = "0" /\ u[2] \in letters
IntegerPart(u) ==
    LET dot == FirstIndex(u, {"."})
        ex == FirstIndex(u, {"e", "E"})
    IN SubSeq(u, 1, (IF dot > 0 THEN dot ELSE IF ex > 0 THEN ex ELSE Len(u) + 1) - 1)
FractionPart(u) ==
    LET dot == FirstIndex(u, {"."})
        ex == FirstIndex(u, {"e", "E"})
    IN IF dot > 0
       THEN SubSeq(u, dot + 1, (IF ex > 0 THEN ex ELSE Len(u) + 1) - 1)
       ELSE <<>>
ExponentPart(u) ==
    LET ex == FirstIndex(u, {"e", "E"})
    IN IF ex > 0 THEN SubSeq(u, ex + 1, Len(u)) ELSE <<>>
HasFraction(u) == FirstIndex(u, {"."}) > 0
HasExponent(u) == FirstIndex(u, {"e", "E"}) > 0

\* [+|-] ( 0x HEX+ | 0c OCTAL+ | 0b BINARY+ | INT [. INT] [ [eE][+|-] INT ] )
IsNumberLexeme(text) ==
    LET u == Unsigned(text)
        digits == SubSeq(u, 3, Len(u))
    IN IF Prefixed(u, {"x", "X"}) THEN AllOf(digits, HexDigits)
       ELSE IF Prefixed(u, {"c", "C"}) THEN AllOf(digits, OctDigits)
       ELSE IF Prefixed(u, {"b", "B"}) THEN AllOf(digits, BinDigits)
       ELSE /\ AllOf(IntegerPart(u), DecDigits)
            /\ HasFraction(u) => AllOf(FractionPart(u), DecDigits)
            /\ HasExponent(u) => AllOf(Unsigned(ExponentPart(u)), DecDigits)

\* the number a lexeme of the grammar denotes
Denoted(text) ==
    LET u == Unsigned(text)
        digits == SubSeq(u, 3, Len(u))
        whole(base) == NumVal(SignOf(text) * DigitsValue(digits, base, 0), 0)
        exponent == IF HasExponent(u)
                    THEN SignOf(ExponentPart(u)) *
                         DigitsValue(Unsigned(ExponentPart(u)), 10, 0)
                    ELSE 0
    IN IF Prefixed(u, {"x", "X"}) THEN whole(16)
       ELSE IF Prefixed(u, {"c", "C"}) THEN whole(8)
       ELSE IF Prefixed(u, {"b", "B"}) THEN whole(2)
       ELSE NumVal(SignOf(text) *
                       DigitsValue(IntegerPart(u) \o FractionPart(u), 10, 0),
                   exponent - Len(FractionPart(u)))

\* the subType of a lexeme: set exactly for the prefixed forms
SubTypeOf(text) ==
    LET u == Unsigned(text)
    IN IF Prefixed(u, {"x", "X"}) THEN "HEX"
       ELSE IF Prefixed(u, {"c", "C"}) THEN "OCTAL"
       ELSE IF Prefixed(u, {"b", "B"}) THEN "BINARY"
       ELSE ""

\* C19: the value of a NUMBER token whose text is a lexeme of the grammar is
\* the number the lexeme denotes, fractional when it has a fractional part
\* or an exponent (0.5 included), and its subType is HEX, OCTAL or BINARY
\* exactly for the prefixed forms.
C19_NumberValueIsDenoted ==
    \A i \in 1..Len(tokens) :
        (tokens[i].type = "NUMBER" /\ IsNumberLexeme(tokens[i].text)) =>
            /\ tokens[i].value = Denoted(tokens[i].text)
            /\ tokens[i].subType = SubTypeOf(tokens[i].text)

\* the lexemes whose value is the one denoted: those that are not octal or
\* binary and do not start with 0 before a decimal point
C19_ExceptLeadingZero ==
    \A i \in 1..Len(tokens) :
        LET u == Unsigned(tokens[i].text)
        IN (/\ tokens[i].type = "NUMBER"
            /\ IsNumberLexeme(tokens[i].text)
            /\ ~Prefixed(u, {"c", "C", "b", "B"})
            /\ ~(u[1] = "0" /\ HasFraction(u))) =>
               /\ tokens[i].value = Denoted(tokens[i].text)
               /\ tokens[i].subType = SubTypeOf(tokens[i].text)

\* C20: every NUMBER token has a text that is a lexeme of the number grammar
\* and a value that is a finite number, never NaN.
C20_NumberTokensAreWellFormed ==
    \A i \in 1..Len(tokens) :
        tokens[i].type = "NUMBER" =>
            /\ IsNumberLexeme(tokens[i].text)
            /\ tokens[i].value.k = "number"

\* s holds sub as a substring
Contains(s, sub) ==
    \E i \in 0..(Len(s) - Len(sub)) : Substring(s, i, i + Len(sub)) = sub

\* the first index from i on that holds no whitespace
RECURSIVE SkipWhitespaceFrom(_, _)
SkipWhitespaceFrom(s, i) ==
    IF i < Len(s) /\ isWhitespace(CharAt(s, i))
    THEN SkipWhitespaceFrom(s, i + 1) ELSE i

\* the token was read by parseLiteralOrOpenString
FromOpenString(token) ==
    \/ token.subType = "OPEN_STRING"
    \/ token.type \in {"BOOLEAN", "NULL"}

\* the dispatcher is at `---`
AtSectionSep == pc = "dispatch" /\ Substring(input, pos, pos + 3) = SectionSep

\* the source of the spec's example: a comment, `---` and a number
CommentSepNumber == <<HASH, " ", "h", "i", NL, "-", "-", "-", NL, "1">>

\* C21: at `---` the dispatcher emits one SECTION_SEP token (text and value
\* `---`) and advances exactly 3 characters; an open string stops before any
\* `---`, so no open string's value contains `---` and the `---` that ended
\* it is the next token, a SECTION_SEP; a comment followed by `---` and a
\* number yields exactly SECTION_SEP then NUMBER.
C21_SectionSeparator ==
    /\ [][AtSectionSep =>
            /\ tokens' = Append(tokens, Token(pos, row, col, SectionSep,
                                              StrVal(SectionSep),
                                              "SECTION_SEP", ""))
            /\ pos' = pos + 3
            /\ pc' = "dispatch"]_vars
    /\ [](\A i \in 1..Len(tokens) :
            FromOpenString(tokens[i]) =>
                LET stop == SkipWhitespaceFrom(
                                input, tokens[i].position + Len(tokens[i].text))
                IN /\ ~Contains(tokens[i].text, SectionSep)
                   /\ tokens[i].value.k = "string" =>
                          ~Contains(tokens[i].value.s, SectionSep)
                   /\ (/\ Substring(input, stop, stop + 3) = SectionSep
                       /\ i < Len(tokens)) =>
                          /\ tokens[i + 1].type = "SECTION_SEP"
                          /\ tokens[i + 1].position = stop)
    /\ []((pc = "returned" /\ input = CommentSepNumber) =>
            [i \in 1..Len(tokens) |-> tokens[i].type] =
                <<"SECTION_SEP", "NUMBER">>)

\* an open string ended by `---`, with the SECTION_SEP emitted after it
C21_Witness ==
    \E i \in 1..(Len(tokens) - 1) :
        /\ tokens[i].subType = "OPEN_STRING"
        /\ tokens[i + 1].type = "SECTION_SEP"
        /\ tokens[i + 1].position >= tokens[i].position + Len(tokens[i].text)
        /\ pos = tokens[i + 1].position + 3

\* how many characters the escape sequence at the backslash at index i takes
EscapeLength(s, i) ==
    CASE CharAt(s, i + 1) = "u" -> 6
      [] CharAt(s, i + 1) = "x" -> 4
      [] OTHER -> 2

\* the index of the first unescaped quote q from index i on
RECURSIVE ClosingQuote(_, _, _)
ClosingQuote(s, i, q) ==
    IF i >= Len(s) \/ CharAt(s, i) = q THEN i
    ELSE IF CharAt(s, i) = BACKSLASH THEN ClosingQuote(s, i + EscapeLength(s, i), q)
    ELSE ClosingQuote(s, i + 1, q)

\* what the escape sequence at the backslash at index i stands for
EscapeDecoded(s, i) ==
    LET e == CharAt(s, i + 1)
    IN CASE e = "b" -> BS
         [] e = "f" -> "\f"
         [] e = "n" -> NL
         [] e = "r" -> "\r"
         [] e = "t" -> TAB
         [] e = "u" -> FromCharCode(DigitsValue(Substring(s, i + 2, i + 6), 16, 0))
         [] e = "x" -> FromCharCode(DigitsValue(Substring(s, i + 2, i + 4), 16, 0))
         [] OTHER -> e

\* the content of s from index i up to index close, each escape decoded
RECURSIVE Decoded(_, _, _)
Decoded(s, i, close) ==
    IF i >= close THEN <<>>
    ELSE IF CharAt(s, i) = BACKSLASH
    THEN <<EscapeDecoded(s, i)>> \o Decoded(s, i + EscapeLength(s, i), close)
    ELSE <<CharAt(s, i)>> \o Decoded(s, i + 1, close)

\* the content holds a \u or \x escape
RECURSIVE UsesNumericEscape(_, _, _)
UsesNumericEscape(s, i, close) ==
    IF i >= close THEN FALSE
    ELSE IF CharAt(s, i) = BACKSLASH
    THEN \/ CharAt(s, i + 1) \in {"u", "x"}
         \/ UsesNumericEscape(s, i + EscapeLength(s, i), close)
    ELSE UsesNumericEscape(s, i + 1, close)

\* parseRegularString returns its token
EmitsRegularString == pc = "regular" /\ Len(tokens') = Len(tokens) + 1

\* C22: the value of a regular string is the content between the quotes with
\* each escape decoded (\b \f \n \r \t to the control character, \uXXXX and
\* \xXX to the code unit of their hex digits, a backslash before any other
\* character to that character), and scanning resumes right after each
\* escape sequence, so the token ends at the first unescaped closing quote.
C22_RegularStringValue ==
    [][EmitsRegularString =>
        LET close == ClosingQuote(input, frame.start + 1, frame.encloser)
            token == tokens'[Len(tokens')]
        IN /\ token.type = "STRING" /\ token.subType = "REGULAR_STRING"
           /\ token.position = frame.start
           /\ token.value = StrVal(Decoded(input, frame.start + 1, close))
           /\ pos' = close + 1]_vars

\* C22, amended: as above, and a value decoded with a \u or \x escape is
\* NFC-normalized once at the end.
C22_RegularStringValue_Amended ==
    [][EmitsRegularString =>
        LET close == ClosingQuote(input, frame.start + 1, frame.encloser)
            token == tokens'[Len(tokens')]
            content == Decoded(input, frame.start + 1, close)
        IN /\ token.type = "STRING" /\ token.subType = "REGULAR_STRING"
           /\ token.position = frame.start
           /\ token.value =
                  StrVal(IF UsesNumericEscape(input, frame.start + 1, close)
                         THEN NFC(content) ELSE content)
           /\ pos' = close + 1]_vars

\* a regular string read to its end whose \u escape composed with the
\* letter before it
C22_Witness ==
    /\ tokens # <<>>
    /\ tokens[Len(tokens)].subType = "REGULAR_STRING"
    /\ tokens[Len(tokens)].value = StrVal(<<"U+225">>)
    /\ pos = Len(input)

\* the index of the first quote q from index i on that no backslash escapes
RECURSIVE UnescapedQuote(_, _, _)
UnescapedQuote(s, i, q) ==
    IF i >= Len(s) \/ CharAt(s, i) = q THEN i
    ELSE IF CharAt(s, i) = BACKSLASH THEN UnescapedQuote(s, i + 2, q)
    ELSE UnescapedQuote(s, i + 1, q)

\* parseRawString returns its token
EmitsRawString == pc = "raw" /\ Len(tokens') = Len(tokens) + 1

\* C23: a raw string gives one STRING token of subType RAW_STRING whose value
\* is the source between the opening quote and the next unescaped quote,
\* verbatim (a backslash-escaped quote does not end it), without the r and
\* the quotes: length(value) = length(text) - 3.
C23_RawStringValue ==
    [][EmitsRawString =>
        LET close == UnescapedQuote(input, frame.start + 2, frame.encloser)
            token == tokens'[Len(tokens')]
        IN /\ token.type = "STRING" /\ token.subType = "RAW_STRING"
           /\ token.position = frame.start
           /\ token.value = StrVal(Substring(input, frame.start + 2, close))
           /\ Len(token.value.s) = Len(token.text) - 3
           /\ pos' = close + 1]_vars

\* the raw string ends at the first quote, escaped or not
C23_EndsAtFirstQuote ==
    [][EmitsRawString =>
        LET close == CHOOSE i \in (frame.start + 2)..Len(input) :
                         /\ CharAt(input, i) = frame.encloser
                         /\ \A j \in (frame.start + 2)..(i - 1) :
                                CharAt(input, j) # frame.encloser
            token == tokens'[Len(tokens')]
        IN /\ token.type = "STRING" /\ token.subType = "RAW_STRING"
           /\ token.value = StrVal(Substring(input, frame.start + 2, close))
           /\ Len(token.value.s) = Len(token.text) - 3
           /\ pos' = close + 1]_vars

\* the index at which an open string that starts at index i stops: the end
\* of the input, a character no open string may hold, or a `---`
RECURSIVE OpenStringStop(_, _)
OpenStringStop(s, i) ==
    IF \/ i >= Len(s)
       \/ ~isValidOpenStringChar(CharAt(s, i))
       \/ Substring(s, i, i + 3) = SectionSep
    THEN i ELSE OpenStringStop(s, i + 1)

\* s without its trailing whitespace
RECURSIVE TrimEnd(_)
TrimEnd(s) ==
    IF s # <<>> /\ isWhitespace(s[Len(s)])
    THEN TrimEnd(SubSeq(s, 1, Len(s) - 1)) ELSE s

\* parseLiteralOrOpenString returns its token
EmitsOpenString == pc = "open" /\ Len(tokens') = Len(tokens) + 1

\* C24: the value of an open string is the source from its first character
\* through its last non-whitespace character; T and true give BOOLEAN true,
\* F and false BOOLEAN false, N and null NULL, every other value a STRING
\* token of subType OPEN_STRING whose value equals its text.
C24_OpenStringValue ==
    [][EmitsOpenString =>
        LET stop == OpenStringStop(input, frame.start)
            text == TrimEnd(Substring(input, frame.start, stop))
            token == tokens'[Len(tokens')]
        IN /\ token.position = frame.start
           /\ token.text = text
           /\ pos' = stop
           /\ IF text \in {<<"T">>, <<"t", "r", "u", "e">>}
              THEN token.type = "BOOLEAN" /\ token.value = BoolVal(TRUE)
              ELSE IF text \in {<<"F">>, <<"f", "a", "l", "s", "e">>}
              THEN token.type = "BOOLEAN" /\ token.value = BoolVal(FALSE)
              ELSE IF text \in {<<"N">>, <<"n", "u", "l", "l">>}
              THEN token.type = "NULL" /\ token.value = NullVal
              ELSE /\ token.type = "STRING"
                   /\ token.subType = "OPEN_STRING"
                   /\ token.value = StrVal(text)]_vars

\* an open string with whitespace inside it and trimmed whitespace after it
C24_Witness ==
    /\ tokens # <<>>
    /\ pc = "dispatch"
    /\ LET token == tokens[Len(tokens)]
       IN /\ token.subType = "OPEN_STRING"
          /\ \E i \in 2..(Len(token.text) - 1) : isWhitespace(token.text[i])
          /\ pos > token.position + Len(token.text)

IsColon(token) == token.type = "sep" /\ token.value = StrVal(<<":">>)

\* a child that is a string, a number or a boolean
IsPrimitive(child) ==
    ~child.isKV /\ child.val.k \in {"string", "number", "boolean"}

\* process(token) is run on a `:`
ProcessesColon ==
    /\ pc = "returned"
    /\ fed < Len(tokens)
    /\ fed' = fed + 1
    /\ IsColon(tokens[fed + 1])

\* C25: on a `:`, a last child that is a primitive (the empty string, 0 and
\* false included) is replaced by a key-value pair of its string form and
\* the value undefined; with no last child, or one that is not a primitive,
\* an invalid-key error is raised.
C25_ColonMakesKeyOrRaises ==
    [][ProcessesColon =>
        LET children == Children(stack, heap)
            n == Len(children)
        IN IF n > 0 /\ IsPrimitive(children[n])
           THEN /\ pc' = "returned"
                /\ Children(stack', heap') =
                       [children EXCEPT ![n] =
                           KeyVal(PrimitiveToString(children[n].val),
                                  UndefinedVal)]
           ELSE pc' = "parserThrown"]_vars

\* what the code does: a truthy primitive becomes a key, anything else is
\* left as it is and nothing is raised
C25_TruthyPrimitiveOnly ==
    [][ProcessesColon =>
        LET children == Children(stack, heap)
            n == Len(children)
        IN /\ pc' = "returned"
           /\ Children(stack', heap') =
                  IF n > 0 /\ TruthyPrimitive(children[n])
                  THEN [children EXCEPT ![n] =
                           KeyVal(PrimitiveToString(children[n].val),
                                  UndefinedVal)]
                  ELSE children]_vars

\* the key-value pairs anywhere in the tree whose value is set
SetPairs(hp) ==
    {<<id, i>> \in (1..Len(hp)) \X (1..MaxTokens + 1) :
        /\ i <= Len(hp[id].values)
        /\ hp[id].values[i].isKV
        /\ hp[id].values[i].val # UndefinedVal}

\* process(token) is run on a value token or an opening bracket
ProcessesValue ==
    /\ pc = "returned"
    /\ fed < Len(tokens)
    /\ fed' = fed + 1
    /\ process_branch(tokens[fed + 1]) \in {"value", "curly", "bracket"}

\* the value process hands to addValue: the token's value, or the container
\* it has just created
AddedValue ==
    IF process_branch(tokens[fed + 1]) = "value" THEN tokens[fed + 1].value
    ELSE RefVal(Len(heap'))

\* C26: every value passed through addValue ends up in the tree: after a `:`
\* with a last child that is a key-value pair of undefined value it fills
\* that slot, in every other case it is appended as a new last child; no
\* value is discarded and no pair whose value is set is overwritten.
C26_AddValueKeepsEveryValue ==
    [][ProcessesValue =>
        LET children == Children(stack, heap)
            n == Len(children)
            top == IF stack = <<>> THEN Len(heap) + 1 ELSE stack[Len(stack)]
            after == heap'[top].values
            fills == /\ lastToken # NoToken
                     /\ IsColon(lastToken)
                     /\ n > 0
                     /\ children[n].isKV
                     /\ children[n].val = UndefinedVal
        IN /\ IF fills
              THEN after = [children EXCEPT ![n].val = AddedValue]
              ELSE after = Append(children, Bare(AddedValue))
           /\ \A p \in SetPairs(heap) :
                  heap'[p[1]].values[p[2]] = heap[p[1]].values[p[2]]]_vars

\* the value the common check hands to the validator; undefined when it throws
HandedOn == doCommonTypeCheck(call.memberDef, call.value).value

\* the value is of the kind the type takes: an arbitrary-precision integer
\* for bigint, a finite number for every other type
KindMatches ==
    IF call.type = "bigint" THEN HandedOn.k = "bigint" ELSE HandedOn.k = "number"

\* the type's validator passes the value
TypeCheckPasses ==
    /\ call.type \in {NUMBER_TYPES[i] : i \in 1..Len(NUMBER_TYPES)}
    /\ call.type \notin UnsupportedTypes \ {"float64"}
    /\ doCommonTypeCheck(call.memberDef, call.value).status = "returned"
    /\ KindMatches
    /\ call.type \in WidthQualified => InTypeRange(call.type, HandedOn)

BelowMin == call.memberDef.min # VNull /\ ~AtMost(call.memberDef.min, HandedOn)
AboveMax == call.memberDef.max # VNull /\ ~AtMost(HandedOn, call.memberDef.max)

\* C27: NumberDef.parse applies memberDef.min and memberDef.max, inclusive,
\* only after the type's validator has passed: out-of-range is raised
\* exactly for the values the validator passes that lie below min or above
\* max, a value equal to min or to max is returned, a value outside the
\* type's range fails with invalid-range even when it also violates min or
\* max, and an unset min or max rejects nothing.
C27_MinMaxAfterTypeCheck ==
    ParsedNumber =>
        /\ call.outcome = Thrown("out-of-range")
              <=> (TypeCheckPasses /\ (BelowMin \/ AboveMax))
        /\ (TypeCheckPasses /\ ~BelowMin /\ ~AboveMax)
              => call.outcome = Returned(HandedOn)
        /\ (/\ call.type \in WidthQualified
            /\ doCommonTypeCheck(call.memberDef, call.value).status = "returned"
            /\ KindMatches
            /\ ~InTypeRange(call.type, HandedOn))
              => call.outcome = Thrown("invalid-range")

\* 100 is accepted as a uint8 with max 100, 0 with min 0, and -1 fails with
\* the type's range error although min is 0
C27_Witness ==
    /\ ParsedNumber
    /\ call.type = "uint8"
    /\ call.memberDef.min = VInt(0)
    /\ call.memberDef.max = VInt(100)
    /\ call.value = VInt(100)
    /\ call.outcome = Returned(VInt(100))

\* the number types whose validator is _intValidator
IntValidated ==
    {"float", "float64", "number", "bigint", "int", "uint", "int8", "uint8",
     "int16", "uint16", "int32", "uint32"}

\* a finished parse in which the value reached _intValidator
ReachedIntValidator ==
    /\ ParsedNumber
    /\ call.type \in IntValidated
    /\ doCommonTypeCheck(call.memberDef, call.value).status = "returned"

\* C28: type dispatch of the number validator: a memberDef of type bigint
\* accepts only arbitrary-precision integers and rejects ordinary numbers,
\* every other number type accepts only ordinary numbers and rejects
\* arbitrary-precision integers, and a value of neither kind is rejected
\* with invalid-type, all before any range comparison.
C28_ValidatorTypeDispatch ==
    ReachedIntValidator =>
        LET kind == IF HandedOn.k = "bigint" THEN "bigint"
                    ELSE IF HandedOn.k \in {"number", "NaN"} THEN "number"
                    ELSE "other"
            wanted == IF call.type = "bigint" THEN "bigint" ELSE "number"
        IN /\ kind = "other" => call.outcome = Thrown("invalid-type")
           /\ (kind # "other" /\ kind # wanted)
                 => call.outcome = Thrown("not-a-" \o call.type)
           /\ call.outcome.status = "returned" => kind = wanted

\* the arbitrary-precision integer 256 is rejected as a uint8 for its kind,
\* not for its range
C28_Witness ==
    /\ ReachedIntValidator
    /\ call.type = "uint8"
    /\ call.value = VBigInt(0, 256)
    /\ call.outcome = Thrown("not-a-uint8")

\* the pattern with ^ put in front unless it starts with ^, and $ put behind
\* unless it ends with $
ImplicitlyAnchored(pattern) ==
    (IF pattern[1] = "^" THEN <<>> ELSE <<"^">>)
        \o pattern
        \o (IF pattern[Len(pattern)] = "$" THEN <<>> ELSE <<"$">>)

\* a validation of value on memberDef gets as far as the check of the
\* pattern: the value is a string that the common check passes on
ReachesPattern(memberDef, value) ==
    /\ memberDef.type = "string"
    /\ memberDef.hasPattern
    /\ value.k = "string"
    /\ memberDef.hasChoices => value \in memberDef.choices

\* C29: over any sequence of validations on one memberDef of the string
\* family: the pattern of a `string` memberDef is compiled at the first
\* validation that reaches the pattern check and stored in memberDef.re,
\* every later validation leaves memberDef.re as it is and compiles nothing,
\* the compiled source is the pattern with ^ and $ added only where absent,
\* memberDef.pattern (and every other option) stays as it was, and a
\* memberDef of type email or url never gets a memberDef.re.
C29_PatternCompiledOnceAndCached ==
    /\ [][(call.def = "string") =>
            LET before == call.memberDef
                after == call'.memberDef
            IN /\ after = [before EXCEPT !.re = after.re]
               /\ IF ReachesPattern(before, call'.value) /\ before.re = <<>>
                  THEN /\ call'.compiled
                       /\ after.re = ImplicitlyAnchored(before.pattern)
                  ELSE /\ ~call'.compiled
                       /\ after.re = before.re]_vars
    /\ []((call.def = "string" /\ call.type \in {"email", "url"})
             => call.memberDef.re = <<>>)

\* a validation that passed the pattern `a*` with the expression an earlier
\* validation compiled
C29_Witness ==
    /\ call.def = "string"
    /\ call.memberDef.pattern = <<"a", "*">>
    /\ call.memberDef.re = <<"^", "a", "*", "$">>
    /\ call.value = VStr(<<"a", "a">>)
    /\ call.outcome = Returned(call.value)
    /\ ~call.compiled

\* the token is a structural symbol: `sep` for the parser's own tokenizer,
\* the symbol types for Tokenizer
IsStructural(token) ==
    token.type \in {"sep", "CURLY_OPEN", "CURLY_CLOSE", "BRACKET_OPEN",
                    "BRACKET_CLOSE", "COMMA", "COLON", "TILDE"}

\* process() is given a token that is not a structural symbol
ProcessesNonStructural ==
    /\ pc = "returned"
    /\ fed < Len(tokens)
    /\ fed' = fed + 1
    /\ ~IsStructural(tokens[fed + 1])

\* C30: in ASTParser.process only structural-symbol tokens change the
\* container stack: a token that is not a structural symbol, such as a
\* quoted string whose value is `{` or `[`, leaves the depth of the stack as
\* it was (the root, which the first token creates, apart).
C30_OnlySymbolsChangeTheStack ==
    [][ProcessesNonStructural =>
          Len(stack') = IF stack = <<>> THEN 1 ELSE Len(stack)]_vars

\* the largest step advance() is called with (past the four hex digits of
\* a \u escape)
MaxStep == 4

\* C31: the cursor of the Tokenizer: in every reachable state
\* 0 <= pos <= input.length, row >= 1 and col >= 1; reachedEnd is true only
\* when pos = input.length; once reachedEnd is true no step, and no call of
\* advance(), changes pos, row or col; and pos never decreases.
C31_CursorInvariant ==
    /\ [](/\ 0 <= pos
          /\ pos <= Len(input)
          /\ row >= 1
          /\ col >= 1
          /\ reachedEnd => pos = Len(input))
    /\ [](reachedEnd =>
            \A n \in 1..MaxStep :
                LET t == advance(Cur, n)
                IN t.pos = pos /\ t.row = row /\ t.col = col)
    /\ [][reachedEnd => (pos' = pos /\ row' = row /\ col' = col)]_vars
    /\ [][pos' >= pos]_vars

\* the input ended with a newline: advance() moved to the second row, set
\* reachedEnd at the end of the input, and tokenize() returned
C31_Witness ==
    /\ reachedEnd
    /\ pos = Len(input)
    /\ pos > 1
    /\ row = 2
    /\ col = 1
    /\ pc = "returned"

============================================================================
